---- MODULE Spec2Model ----
(***************************************************************************)
(* Reasoning dispatch core of openwhisprz: ReasoningService (renderer),    *)
(* LocalReasoningService (main-process bridge) and the model registry's    *)
(* provider resolution.  Strings are real strings; an await of the source  *)
(* is a boundary between two actions.                                      *)
(***************************************************************************)
EXTENDS Integers, Sequences, FiniteSets, TLC

\* ------------------------------------------------------------ bounds
\* number of caller slots that may have a processText call pending at once
NumCalls == 2
\* attempt budget of the retry strategy (utils/retry is not part of src/)
MaxAttempts == 2

CallIds == 1..NumCalls

\* ------------------------------------------------------------ strings
EndsWith(s, t) == Len(s) >= Len(t) /\ SubSeq(s, Len(s) - Len(t) + 1, Len(s)) = t

StartsWith(s, t) == Len(s) >= Len(t) /\ SubSeq(s, 1, Len(t)) = t

Includes(s, t) == \E i \in 1..(Len(s) - Len(t) + 1) : SubSeq(s, i, i + Len(t) - 1) = t

UpperChars == "ABCDEFGHIJKLMNOPQRSTUVWXYZ"

LowerChars == "abcdefghijklmnopqrstuvwxyz"

LowerChar(ch) ==
  IF \E i \in 1..26 : SubSeq(UpperChars, i, i) = ch
  THEN LET i == CHOOSE j \in 1..26 : SubSeq(UpperChars, j, j) = ch
       IN SubSeq(LowerChars, i, i)
  ELSE ch

UpperChar(ch) ==
  IF \E i \in 1..26 : SubSeq(LowerChars, i, i) = ch
  THEN LET i == CHOOSE j \in 1..26 : SubSeq(LowerChars, j, j) = ch
       IN SubSeq(UpperChars, i, i)
  ELSE ch

RECURSIVE ToLowerCase(_)
ToLowerCase(s) ==
  IF Len(s) = 0 THEN ""
  ELSE LowerChar(SubSeq(s, 1, 1)) \o ToLowerCase(SubSeq(s, 2, Len(s)))

RECURSIVE TrimStart(_)
TrimStart(s) ==
  IF Len(s) > 0 /\ SubSeq(s, 1, 1) = " " THEN TrimStart(SubSeq(s, 2, Len(s))) ELSE s

RECURSIVE TrimEnd(_)
TrimEnd(s) ==
  IF Len(s) > 0 /\ SubSeq(s, Len(s), Len(s)) = " "
  THEN TrimEnd(SubSeq(s, 1, Len(s) - 1)) ELSE s

Trim(s) == TrimEnd(TrimStart(s))

\* JavaScript null / undefined
Null == "<null>"

\* JavaScript truthiness of a string-or-null value
Truthy(v) == v # Null /\ v # ""

\* a || b
OrElse(a, b) == IF Truthy(a) THEN a ELSE b

\* an assignment that is lost
PutNothing(m, k, v) == m

\* Map.set / obj[k] = v on a function whose DOMAIN is the set of present keys
Put(m, k, v) == [x \in (DOMAIN m) \cup {k} |-> IF x = k THEN v ELSE m[x]]

\* Map.delete
Remove(m, k) == [x \in (DOMAIN m) \ {k} |-> m[x]]

EmptyMap == [x \in {} |-> Null]

\* Map.get / obj[k]
Get(m, k) == IF k \in DOMAIN m THEN m[k] ELSE Null

\* ------------------------------------------------------------ endpoints
OPENAI_BASE == "https://api.openai.com/v1"

GROQ_BASE == "https://api.groq.com/openai/v1"

GEMINI_BASE == "https://generativelanguage.googleapis.com/v1beta"

RECURSIVE StripTrailingSlashes(_)
StripTrailingSlashes(s) ==
  IF Len(s) > 0 /\ SubSeq(s, Len(s), Len(s)) = "/"
  THEN StripTrailingSlashes(SubSeq(s, 1, Len(s) - 1)) ELSE s

\* config/constants.normalizeBaseUrl
normalizeBaseUrl(value) == StripTrailingSlashes(Trim(value))

\* config/constants.buildApiUrl
buildApiUrl(base, path) == StripTrailingSlashes(base) \o path

\* utils/urlUtils.isSecureEndpoint: https, or plain http to a local address
isSecureEndpoint(url) ==
  \/ StartsWith(url, "https://")
  \/ StartsWith(url, "http://localhost")
  \/ StartsWith(url, "http://127.0.0.1")

knownNonOpenAIUrls == {"api.groq.com", "api.anthropic.com", "generativelanguage.googleapis.com"}

\* getConfiguredOpenAIBase without the known-vendor rejection
getConfiguredOpenAIBaseWithoutVendorCheck(provider, stored) ==
  LET isCustomProvider == OrElse(provider, "") = "custom"
      trimmed == Trim(OrElse(stored, ""))
      normalized == OrElse(normalizeBaseUrl(trimmed), OPENAI_BASE)
  IN IF ~isCustomProvider THEN OPENAI_BASE
     ELSE IF ~Truthy(trimmed) THEN OPENAI_BASE
     ELSE IF ~isSecureEndpoint(normalized) THEN OPENAI_BASE
     ELSE normalized

\* ReasoningService.getConfiguredOpenAIBase, from the two settings it reads
\* (localStorage reasoningProvider and cloudReasoningBaseUrl, Null when not set)
getConfiguredOpenAIBase(provider, stored) ==
  LET isCustomProvider == OrElse(provider, "") = "custom"
      trimmed == Trim(OrElse(stored, ""))
      normalized == OrElse(normalizeBaseUrl(trimmed), OPENAI_BASE)
  IN IF ~isCustomProvider THEN OPENAI_BASE
     ELSE IF ~Truthy(trimmed) THEN OPENAI_BASE
     ELSE IF \E u \in knownNonOpenAIUrls : Includes(normalized, u) THEN OPENAI_BASE
     ELSE IF ~isSecureEndpoint(normalized) THEN OPENAI_BASE
     ELSE normalized

\* The value of localStorage["openAiEndpointPreference"]:
\*   kind "absent"    the key is not set (getItem gives null)
\*   kind "object"    JSON text of an object, map = its entries
\*   kind "nonobject" JSON text of a number, string or null
\*   kind "corrupt"   text that JSON.parse rejects
StoredObject(m) == [kind |-> "object", map |-> m]

StoredAbsent == [kind |-> "absent", map |-> EmptyMap]

StoredNonObject == [kind |-> "nonobject", map |-> EmptyMap]

StoredCorrupt == [kind |-> "corrupt", map |-> EmptyMap]

IsDialect(v) == v = "responses" \/ v = "chat"

\* the value getStoredOpenAiPreference finds in storage (Null for undefined)
StoredPreferenceValue(store, base) ==
  IF store.kind = "object" /\ IsDialect(Get(store.map, base)) THEN store.map[base] ELSE Null

\* ReasoningService.getStoredOpenAiPreference: the returned preference
getStoredOpenAiPreference(mem, store, base) ==
  IF base \in DOMAIN mem THEN mem[base] ELSE StoredPreferenceValue(store, base)

\* ... and the in-memory map it leaves behind (a storage hit is cached)
MemAfterLookup(mem, store, base) ==
  IF base \notin DOMAIN mem /\ StoredPreferenceValue(store, base) # Null
  THEN Put(mem, base, StoredPreferenceValue(store, base))
  ELSE mem

\* one candidate for either remembered dialect
CandidatesSingleForAnyPreference(mem, store, base) ==
  LET lower == ToLowerCase(base)
      preference == getStoredOpenAiPreference(mem, store, base)
  IN IF EndsWith(lower, "/responses") \/ EndsWith(lower, "/chat/completions")
     THEN << [url |-> base,
              type |-> IF EndsWith(lower, "/responses") THEN "responses" ELSE "chat"] >>
     ELSE IF preference = "chat"
     THEN << [url |-> buildApiUrl(base, "/chat/completions"), type |-> "chat"] >>
     ELSE IF preference = "responses"
     THEN << [url |-> buildApiUrl(base, "/responses"), type |-> "responses"] >>
     ELSE << [url |-> buildApiUrl(base, "/responses"), type |-> "responses"],
             [url |-> buildApiUrl(base, "/chat/completions"), type |-> "chat"] >>

\* ReasoningService.getOpenAIEndpointCandidates
getOpenAIEndpointCandidates(mem, store, base) ==
  LET lower == ToLowerCase(base)
      preference == getStoredOpenAiPreference(mem, store, base)
  IN IF EndsWith(lower, "/responses") \/ EndsWith(lower, "/chat/completions")
     THEN << [url |-> base,
              type |-> IF EndsWith(lower, "/responses") THEN "responses" ELSE "chat"] >>
     ELSE IF preference = "chat"
     THEN << [url |-> buildApiUrl(base, "/chat/completions"), type |-> "chat"] >>
     ELSE << [url |-> buildApiUrl(base, "/responses"), type |-> "responses"],
             [url |-> buildApiUrl(base, "/chat/completions"), type |-> "chat"] >>

\* the in-memory map after getOpenAIEndpointCandidates (no lookup for a suffixed base)
MemAfterCandidates(mem, store, base) ==
  LET lower == ToLowerCase(base)
  IN IF EndsWith(lower, "/responses") \/ EndsWith(lower, "/chat/completions")
     THEN mem
     ELSE MemAfterLookup(mem, store, base)

\* the write replaces the stored object
StoreReplacedByRemember(store, base, preference, writeOk) ==
  IF store.kind = "corrupt" \/ ~writeOk THEN store
  ELSE StoredObject(Put(EmptyMap, base, preference))

\* ReasoningService.rememberOpenAiPreference: storage after the call.
\* writeOk = FALSE: localStorage.setItem throws (quota, disabled storage).
StoreAfterRemember(store, base, preference, writeOk) ==
  IF store.kind = "corrupt" \/ ~writeOk THEN store
  ELSE StoredObject(Put(store.map, base, preference))

\* ------------------------------------------------------------ credentials
\* an IPC key getter that rejects
IpcThrow == "<throw>"

\* SecureCache.get (utils/SecureCache is not part of src/): the live entry or undefined
CacheGet(cache, provider) == Get(cache, provider)

\* SecureCache.set
CacheSet(cache, provider, key) == Put(cache, provider, key)

\* `${provider.charAt(0).toUpperCase() + provider.slice(1)} API key not configured`
Capitalized(p) == UpperChar(SubSeq(p, 1, 1)) \o SubSeq(p, 2, Len(p))

KeyMissingMessage(p) == Capitalized(p) \o " API key not configured"

\* getApiKey, the 'custom' branch: the trimmed key it returns.
\* ipc = what getCustomReasoningKey gave, stored = localStorage customReasoningApiKey.
CustomKey(ipc, stored) ==
  LET fromIpc == IF ipc = IpcThrow THEN "" ELSE OrElse(ipc, "")
      customKey == IF ~Truthy(fromIpc) \/ ~Truthy(Trim(fromIpc))
                   THEN OrElse(stored, "") ELSE fromIpc
  IN Trim(customKey)

\* getApiKey, the other providers: the key after the cache read and, on a miss, the
\* secure-store fetch (Null when there is none).
FetchedKey(cached, ipc) ==
  IF Truthy(cached) THEN cached
  ELSE IF ipc = IpcThrow THEN cached
  ELSE ipc

\* a key lookup that never fails: without a key it returns nothing
getApiKeyNeverFailing(provider, cached, ipc, stored, cache) ==
  LET apiKey == IF provider = "custom" THEN CustomKey(ipc, stored) ELSE FetchedKey(cached, ipc)
  IN [key |-> apiKey, throws |-> FALSE, error |-> "", cache |-> cache]

\* the 'custom' branch fails like the others when it has no key
getApiKeyThrowingForCustom(provider, cached, ipc, stored, cache) ==
  LET apiKey == IF provider = "custom" THEN CustomKey(ipc, stored) ELSE FetchedKey(cached, ipc)
  IN [key |-> apiKey,
      throws |-> ~Truthy(apiKey),
      error |-> IF Truthy(apiKey) THEN "" ELSE KeyMissingMessage(provider),
      cache |-> IF provider # "custom" /\ ~Truthy(cached) /\ ipc # IpcThrow /\ Truthy(apiKey)
                THEN CacheSet(cache, provider, apiKey) ELSE cache]

\* the 'custom' branch caches its key like the others
getApiKeyCachingCustom(provider, cached, ipc, stored, cache) ==
  LET apiKey == IF provider = "custom" THEN CustomKey(ipc, stored) ELSE FetchedKey(cached, ipc)
  IN [key |-> apiKey,
      throws |-> provider # "custom" /\ ~Truthy(apiKey),
      error |-> IF provider = "custom" \/ Truthy(apiKey) THEN "" ELSE KeyMissingMessage(provider),
      cache |-> IF ~Truthy(cached) /\ ipc # IpcThrow /\ Truthy(apiKey)
                THEN CacheSet(cache, provider, apiKey) ELSE cache]

\* ReasoningService.getApiKey as one result: the key, whether it throws, the error
\* message and the cache it leaves.
\*   cached = apiKeyCache.get(provider) read before the await
getApiKey(provider, cached, ipc, stored, cache) ==
  IF provider = "custom"
  THEN [key |-> CustomKey(ipc, stored), throws |-> FALSE, error |-> "", cache |-> cache]
  ELSE LET apiKey == FetchedKey(cached, ipc)
       IN [key |-> apiKey,
           throws |-> ~Truthy(apiKey),
           error |-> IF Truthy(apiKey) THEN "" ELSE KeyMissingMessage(provider),
           cache |-> IF ~Truthy(cached) /\ ipc # IpcThrow /\ Truthy(apiKey)
                     THEN CacheSet(cache, provider, apiKey) ELSE cache]

\* ReasoningService.clearApiKeyCache; provider = Null for the call without argument
clearApiKeyCache(cache, provider) ==
  IF Truthy(provider)
  THEN IF provider # "custom" THEN Remove(cache, provider) ELSE cache
  ELSE EmptyMap

\* ------------------------------------------------------------ model registry
\* getAllReasoningModels(): model id -> provider (modelRegistryData.json is not part of src/)
RegisteredModels ==
  [m \in {"gpt-5-mini", "claude-sonnet-4", "gemini-2.5-flash", "qwen/qwen3-32b", "qwen2.5-7b"} |->
     CASE m = "gpt-5-mini" -> "openai"
       [] m = "claude-sonnet-4" -> "anthropic"
       [] m = "gemini-2.5-flash" -> "gemini"
       [] m = "qwen/qwen3-32b" -> "groq"
       [] OTHER -> "local"]

\* a resolution that consults the registry before the override
getModelProviderRegistryFirst(modelId, preferredProvider, allowLocalFallback) ==
  LET normalizedPreferred ==
        IF preferredProvider = Null THEN Null ELSE ToLowerCase(Trim(preferredProvider))
  IN IF modelId \in DOMAIN RegisteredModels THEN RegisteredModels[modelId]
     ELSE IF Truthy(normalizedPreferred) /\ normalizedPreferred # "auto"
     THEN IF normalizedPreferred = "custom" THEN "openai" ELSE normalizedPreferred
     ELSE "openai"

\* a resolution without the rule for 'gemini'
getModelProviderWithoutGeminiRule(modelId, preferredProvider, allowLocalFallback) ==
  LET normalizedPreferred ==
        IF preferredProvider = Null THEN Null ELSE ToLowerCase(Trim(preferredProvider))
  IN IF Truthy(normalizedPreferred) /\ normalizedPreferred # "auto"
     THEN IF normalizedPreferred = "custom" THEN "openai" ELSE normalizedPreferred
     ELSE IF modelId \in DOMAIN RegisteredModels THEN RegisteredModels[modelId]
     ELSE IF Includes(modelId, "claude") THEN "anthropic"
     ELSE IF Includes(modelId, "gemma2-") \/ Includes(modelId, "llama-3.3-") THEN "groq"
     ELSE "openai"

\* a resolution that sends every id with 'gpt-4' or 'gpt-5' to openai
getModelProviderWithoutGptOssCarveOut(modelId, preferredProvider, allowLocalFallback) ==
  LET normalizedPreferred ==
        IF preferredProvider = Null THEN Null ELSE ToLowerCase(Trim(preferredProvider))
  IN IF Truthy(normalizedPreferred) /\ normalizedPreferred # "auto"
     THEN IF normalizedPreferred = "custom" THEN "openai" ELSE normalizedPreferred
     ELSE IF modelId \in DOMAIN RegisteredModels THEN RegisteredModels[modelId]
     ELSE IF Includes(modelId, "claude") THEN "anthropic"
     ELSE IF Includes(modelId, "gemini") /\ ~Includes(modelId, "gemma") THEN "gemini"
     ELSE IF Includes(modelId, "gpt-4") \/ Includes(modelId, "gpt-5") THEN "openai"
     ELSE IF \/ Includes(modelId, "qwen/")
             \/ Includes(modelId, "openai/")
             \/ Includes(modelId, "llama-3.1-8b-instant")
             \/ Includes(modelId, "llama-3.3-")
             \/ Includes(modelId, "mixtral-")
             \/ Includes(modelId, "gemma2-") THEN "groq"
     ELSE IF allowLocalFallback
             /\ (\/ Includes(modelId, "qwen")
                 \/ Includes(modelId, "llama")
                 \/ Includes(modelId, "mistral")
                 \/ Includes(modelId, "gpt-oss-20b-mxfp4")) THEN "local"
     ELSE "openai"

\* a resolution that returns the override 'custom' as it is
getModelProviderCustomUnmapped(modelId, preferredProvider, allowLocalFallback) ==
  LET normalizedPreferred ==
        IF preferredProvider = Null THEN Null ELSE ToLowerCase(Trim(preferredProvider))
  IN IF Truthy(normalizedPreferred) /\ normalizedPreferred # "auto"
     THEN normalizedPreferred
     ELSE IF modelId \in DOMAIN RegisteredModels THEN RegisteredModels[modelId]
     ELSE "openai"

\* ModelRegistry.getModelProvider; preferredProvider = Null when not passed
getModelProvider(modelId, preferredProvider, allowLocalFallback) ==
  LET normalizedPreferred ==
        IF preferredProvider = Null THEN Null ELSE ToLowerCase(Trim(preferredProvider))
      registered == modelId \in DOMAIN RegisteredModels
  IN IF Truthy(normalizedPreferred) /\ normalizedPreferred # "auto"
     THEN IF normalizedPreferred = "custom" THEN "openai" ELSE normalizedPreferred
     ELSE IF registered THEN RegisteredModels[modelId]
     ELSE IF Includes(modelId, "claude") THEN "anthropic"
     ELSE IF Includes(modelId, "gemini") /\ ~Includes(modelId, "gemma") THEN "gemini"
     ELSE IF (Includes(modelId, "gpt-4") \/ Includes(modelId, "gpt-5"))
             /\ ~Includes(modelId, "gpt-oss") THEN "openai"
     ELSE IF \/ Includes(modelId, "qwen/")
             \/ Includes(modelId, "openai/")
             \/ Includes(modelId, "llama-3.1-8b-instant")
             \/ Includes(modelId, "llama-3.3-")
             \/ Includes(modelId, "mixtral-")
             \/ Includes(modelId, "gemma2-") THEN "groq"
     ELSE IF allowLocalFallback
             /\ (\/ Includes(modelId, "qwen")
                 \/ Includes(modelId, "llama")
                 \/ Includes(modelId, "mistral")
                 \/ Includes(modelId, "gpt-oss-20b-mxfp4")) THEN "local"
     ELSE "openai"

\* ReasoningService.processText: the provider the call is routed by
\*   storedProvider = localStorage reasoningProvider (Null when not set)
RoutedProvider(storedProvider, trimmedModel) ==
  LET normalizedProvider == ToLowerCase(Trim(OrElse(storedProvider, "")))
  IN IF Truthy(normalizedProvider) /\ normalizedProvider # "auto"
     THEN IF normalizedProvider = "custom" THEN "openai" ELSE normalizedProvider
     ELSE getModelProvider(trimmedModel, Null, TRUE)

\* ------------------------------------------------------------ responses
\* A JSON array field: present with its items, or missing
Arr(items) == [present |-> TRUE, items |-> items]

NoArr == [present |-> FALSE, items |-> <<>>]

\* A message (or delta) of a choice and the content it holds:
\*   kind "missing"  the message itself is undefined
\*   kind "absent"   a message without content
\*   kind "string"   content is the string str
\*   kind "array"    content is an array of parts, each the part's text or Null
NoMessage == [kind |-> "missing", str |-> "", parts |-> <<>>]

NoContent == [kind |-> "absent", str |-> "", parts |-> <<>>]

StringContent(t) == [kind |-> "string", str |-> t, parts |-> <<>>]

ArrayContent(ps) == [kind |-> "array", str |-> "", parts |-> ps]

\* first part whose text is a non-blank string, trimmed ("" when there is none)
RECURSIVE FirstPartText(_)
FirstPartText(parts) ==
  IF Len(parts) = 0 THEN ""
  ELSE IF Head(parts) # Null /\ Truthy(Trim(Head(parts))) THEN Trim(Head(parts))
  ELSE FirstPartText(Tail(parts))

\* processWithOpenAI, the text one choice yields; choice = [message, delta, text]
ChoiceText(choice) ==
  LET content == IF choice.message.kind # "missing" THEN choice.message ELSE choice.delta
  IN IF content.kind = "string" /\ Truthy(Trim(content.str)) THEN Trim(content.str)
     ELSE IF content.kind = "array" /\ FirstPartText(content.parts) # ""
     THEN FirstPartText(content.parts)
     ELSE IF choice.text # Null /\ Truthy(Trim(choice.text)) THEN Trim(choice.text)
     ELSE ""

RECURSIVE ChoicesText(_)
ChoicesText(choices) ==
  IF Len(choices) = 0 THEN ""
  ELSE IF ChoiceText(Head(choices)) # "" THEN ChoiceText(Head(choices))
  ELSE ChoicesText(Tail(choices))

\* the content array of one item of response.output, each part a [type, text]:
\* the trimmed text of its first output_text part that has a text
RECURSIVE ItemText(_)
ItemText(contents) ==
  IF Len(contents) = 0 THEN ""
  ELSE IF Head(contents).type = "output_text" /\ Truthy(Head(contents).text)
  THEN Trim(Head(contents).text)
  ELSE ItemText(Tail(contents))

\* response.output, each item a [type, content]
RECURSIVE OutputText(_)
OutputText(output) ==
  IF Len(output) = 0 THEN ""
  ELSE LET item == Head(output)
           t == IF item.type = "message" /\ item.content.present
                THEN ItemText(item.content.items) ELSE ""
       IN IF t # "" THEN t ELSE OutputText(Tail(output))

\* a normalizer that returns whatever it extracted
NormalizeOpenAIReturningExtracted(response, text) ==
  LET t1 == IF response.output.present THEN OutputText(response.output.items) ELSE ""
      t2 == IF t1 = "" /\ response.output_text # Null THEN Trim(response.output_text) ELSE t1
      t3 == IF t2 = "" /\ response.choices.present
            THEN ChoicesText(response.choices.items) ELSE t2
  IN [ok |-> TRUE, value |-> t3]

\* processWithOpenAI after the transport: response = [output, output_text, choices];
\* text = the caller's input
NormalizeOpenAI(response, text) ==
  LET isResponsesApi == response.output.present
      isChatCompletions == response.choices.present
      t1 == IF isResponsesApi THEN OutputText(response.output.items) ELSE ""
      t2 == IF t1 = "" /\ response.output_text # Null THEN Trim(response.output_text) ELSE t1
      t3 == IF t2 = "" /\ isChatCompletions THEN ChoicesText(response.choices.items) ELSE t2
  IN [ok |-> TRUE, value |-> IF t3 = "" THEN text ELSE t3]

\* callChatCompletionsApi after the transport (the Groq path)
NormalizeChat(response, providerName) ==
  IF ~response.choices.present \/ Len(response.choices.items) = 0
  THEN [ok |-> FALSE, value |-> "Invalid response structure from " \o providerName \o " API"]
  ELSE LET choice == Head(response.choices.items)
           content == choice.message
       IN IF content.kind = "array"
          THEN [ok |-> FALSE, value |-> "choice.message.content.trim is not a function"]
          ELSE IF content.kind = "string" /\ Trim(content.str) # ""
          THEN [ok |-> TRUE, value |-> Trim(content.str)]
          ELSE [ok |-> FALSE, value |-> providerName \o " returned empty response"]

\* a normalizer with one message for every empty answer
NormalizeGeminiOneMessage(response) ==
  IF ~response.candidates.present \/ Len(response.candidates.items) = 0
  THEN [ok |-> FALSE, value |-> "Invalid response structure from Gemini API"]
  ELSE LET candidate == Head(response.candidates.items)
       IN IF ~Truthy(candidate.text)
          THEN [ok |-> FALSE, value |-> "Gemini returned empty response"]
          ELSE [ok |-> TRUE, value |-> Trim(candidate.text)]

\* processWithGemini after the transport: response = [candidates], each candidate a
\* [text, finishReason] with text = content.parts[0].text (Null when missing)
NormalizeGemini(response) ==
  IF ~response.candidates.present \/ Len(response.candidates.items) = 0
  THEN [ok |-> FALSE, value |-> "Invalid response structure from Gemini API"]
  ELSE LET candidate == Head(response.candidates.items)
       IN IF ~Truthy(candidate.text)
          THEN IF candidate.finishReason = "MAX_TOKENS"
               THEN [ok |-> FALSE,
                     value |-> "Gemini reached token limit before generating response. Try a shorter input or increase max tokens."]
               ELSE [ok |-> FALSE, value |-> "Gemini returned empty response"]
          ELSE [ok |-> TRUE, value |-> Trim(candidate.text)]

\* response bodies
ChatResponse(content) ==
  [output |-> NoArr, output_text |-> Null,
   choices |-> Arr(<< [message |-> content, delta |-> NoMessage, text |-> Null] >>)]

ResponsesResponse(t) ==
  [output |-> Arr(<< [type |-> "message",
                      content |-> Arr(<< [type |-> "output_text", text |-> t] >>)] >>),
   output_text |-> Null, choices |-> NoArr]

UnknownResponse == [output |-> NoArr, output_text |-> Null, choices |-> NoArr]

GeminiResponse(t, reason) == [candidates |-> Arr(<< [text |-> t, finishReason |-> reason] >>)]

\* ------------------------------------------------------------ state
VARIABLES
  isProcessing,              \* ReasoningService.isProcessing (BaseReasoningService)
  apiKeyCache,               \* ReasoningService.apiKeyCache: provider -> key
  openAiEndpointPreference,  \* ReasoningService.openAiEndpointPreference: base -> dialect
  lsProvider,                \* localStorage reasoningProvider
  lsBaseUrl,                 \* localStorage cloudReasoningBaseUrl
  lsCustomKey,               \* localStorage customReasoningApiKey
  lsEndpointPref,            \* localStorage openAiEndpointPreference
  calls,                     \* the processText call of each caller slot
  lastEvent,                 \* what the last step did (for the properties)
  fellBack,                  \* the bases for which a call succeeded on the chat dialect
                             \* after its responses request was answered 404 or 405
  bridgeSource,              \* which of the two copies of LocalReasoningService runs
  envProvider,               \* process.env.REASONING_PROVIDER
  localIsProcessing,         \* LocalReasoningService.isProcessing
  localCalls,                \* the bridge's processText call of each caller slot
  localEvent                 \* what the bridge's last step did

\* PromptStudio: the component's state and the storage key it writes
VARIABLES
  customUnifiedPrompt,       \* localStorage customUnifiedPrompt (Null when not set)
  editedPrompt,              \* the component's editedPrompt state
  testResult,                \* the component's testResult state
  isLoading,                 \* the component's isLoading state
  testRun,                   \* the pending testPrompt run and the value it captured
  savedPrompt,               \* what savePrompt or resetToDefault last left in the key
  studioEvent                \* what PromptStudio's last step did

dispatcherVars == << isProcessing, apiKeyCache, openAiEndpointPreference, lsProvider, lsBaseUrl,
                     lsCustomKey, lsEndpointPref, calls, lastEvent, fellBack >>

bridgeVars == << bridgeSource, envProvider, localIsProcessing, localCalls, localEvent >>

studioVars == << customUnifiedPrompt, editedPrompt, testResult, isLoading, testRun, savedPrompt,
                 studioEvent >>

vars == << dispatcherVars, bridgeVars, studioVars >>

settings == << lsProvider, lsBaseUrl, lsCustomKey >>

\* the input text of every call
InputText == " raw words "

CustomBase == "https://llm.example.com/v1"

ProviderSettings == {Null, "custom"}

BaseUrlSettings == {Null, CustomBase, CustomBase \o "/responses"}

CustomKeySettings == {Null, "sk-custom-ls"}

ModelInputs == {"", "gpt-5-mini", "gemini-2.5-flash", "qwen/qwen3-32b", "claude-sonnet-4", "qwen2.5-7b"}

CacheProviders == {"openai", "anthropic", "gemini", "groq", "custom"}

\* what the secure store may answer for a provider's key
IpcOutcomes(p) ==
  IF p = "custom" THEN {IpcThrow, Null, "  ", " sk-custom "}
  ELSE {IpcThrow, Null, "", "  ", "sk-" \o p}

OkStatuses == {"200"}

ErrorStatuses == {"404", "405", "500"}

\* body of a non-2xx answer: JSON with error.message, or plain text
ErrorBodies == {"json", "text"}

ServerMessage == "server says no"

\* one element of response.choices
Choice(message, delta, text) == [message |-> message, delta |-> delta, text |-> text]

ChoicesResponse(choices) == [output |-> NoArr, output_text |-> Null, choices |-> Arr(choices)]

\* a body with the top-level output_text field and the given output array
OutputTextResponse(output, t) == [output |-> output, output_text |-> t, choices |-> NoArr]

OpenAIBodies ==
  { ChatResponse(StringContent(" chat text ")), ChatResponse(StringContent("")),
    ResponsesResponse("responses text"), UnknownResponse,
    ChatResponse(StringContent("  ")),
    ChatResponse(ArrayContent(<< Null, "  ", " part text " >>)),
    ChatResponse(ArrayContent(<< >>)),
    ChatResponse(NoContent),
    ChoicesResponse(<< Choice(NoMessage, StringContent(" delta text "), Null) >>),
    ChoicesResponse(<< Choice(StringContent(" "), NoMessage, " legacy text ") >>),
    ChoicesResponse(<< Choice(ArrayContent(<< " part text " >>), NoMessage, " legacy text ") >>),
    ChoicesResponse(<< Choice(NoContent, NoMessage, Null),
                       Choice(StringContent("second choice"), NoMessage, Null) >>),
    ChoicesResponse(<< >>),
    ResponsesResponse("  "),
    OutputTextResponse(Arr(<< >>), " output text "),
    OutputTextResponse(Arr(<< >>), Null),
    OutputTextResponse(NoArr, " output text ") }

GeminiBodies ==
  { GeminiResponse(" gemini text ", "STOP"), GeminiResponse(Null, "MAX_TOKENS"),
    [candidates |-> NoArr],
    GeminiResponse(Null, "STOP"), GeminiResponse("", "MAX_TOKENS"), GeminiResponse("", "SAFETY"),
    [candidates |-> Arr(<< >>)] }

StoredPrefs ==
  { StoredAbsent, StoredCorrupt, StoredNonObject,
    StoredObject(Put(EmptyMap, CustomBase, "chat")),
    StoredObject(Put(Put(EmptyMap, OPENAI_BASE, "responses"), CustomBase, "junk")) }

IdleCall ==
  [pc |-> "idle", path |-> "-", model |-> "", keyProvider |-> "-", cached |-> Null,
   apiKey |-> Null, base |-> "", cands |-> <<>>, idx |-> 0, attempt |-> 0,
   unsupported |-> FALSE]

\* no key answer, no response body
NoBody == [none |-> TRUE]

NoEvent ==
  [op |-> "none", call |-> 0, path |-> "-", status |-> "-", outcome |-> "-", value |-> "",
   body |-> NoBody]

\* op: start, key, fetch, retry, ipc, clear, expire, setting; path: the provider path of
\* the call; status: the answer of a fetch; outcome: pending, next, backoff, resolved,
\* rejected; value: the text returned or the message of the error thrown; body: what
\* the environment answered in the step (the key getter's answer, the response body)
Event(op, c, path, status, outcome, value) ==
  [op |-> op, call |-> c, path |-> path, status |-> status, outcome |-> outcome,
   value |-> value, body |-> NoBody]

Answered(event, body) == [event EXCEPT !.body = body]

\* LocalReasoningService after construction, not used by the dispatcher's specifications
BridgeIdle ==
  /\ bridgeSource = "services"
  /\ envProvider = Null
  /\ localIsProcessing = FALSE
  /\ localCalls = [c \in CallIds |-> [pc |-> "idle", modelId |-> ""]]
  /\ localEvent = NoEvent

\* config/prompts.UNIFIED_SYSTEM_PROMPT
UNIFIED_SYSTEM_PROMPT == "default prompt"

\* neither savePrompt nor resetToDefault has run
NoSave == "<none>"

\* no testPrompt run is pending
IdleTest == [pc |-> "idle", currentCustomPrompt |-> Null, provider |-> "-"]

\* PromptStudio mounted over empty storage, not used by the other specifications
StudioIdle ==
  /\ customUnifiedPrompt = Null
  /\ editedPrompt = UNIFIED_SYSTEM_PROMPT
  /\ testResult = ""
  /\ isLoading = FALSE
  /\ testRun = IdleTest
  /\ savedPrompt = NoSave
  /\ studioEvent = NoEvent

Init ==
  /\ isProcessing = FALSE
  /\ apiKeyCache = EmptyMap
  /\ openAiEndpointPreference = EmptyMap
  /\ lsProvider \in ProviderSettings
  /\ lsBaseUrl \in BaseUrlSettings
  /\ lsCustomKey \in CustomKeySettings
  /\ lsEndpointPref \in StoredPrefs
  /\ calls = [c \in CallIds |-> IdleCall]
  /\ lastEvent = NoEvent
  /\ fellBack = {}
  /\ BridgeIdle
  /\ StudioIdle

\* the candidate a pending transport is waiting for
Current(call) == call.cands[call.idx]

BusyMessage == "Already processing a request"

\* ------------------------------------------------------------ processText
\* a guard that never rejects
GuardNeverRejects(flag) == FALSE

\* processWithOpenAI / processWithGemini / processWithGroq: the busy guard
GuardRejects(flag) == flag

\* processText up to the first await of the handler it routes to; the event keeps the
\* model id the caller gave
StartCall(c, model) ==
  /\ UNCHANGED << bridgeVars, studioVars, fellBack >>
  /\ calls[c].pc = "idle"
  /\ LET trimmedModel == Trim(model)
         provider == RoutedProvider(lsProvider, trimmedModel)
         keyProvider == IF provider = "openai"
                        THEN (IF OrElse(lsProvider, "") = "custom" THEN "custom" ELSE "openai")
                        ELSE provider
         given == [model |-> model]
         rejected(path, msg) ==
           /\ calls' = calls
           /\ lastEvent' = Answered(Event("start", c, path, "-", "rejected", msg), given)
     IN IF trimmedModel = ""
        THEN rejected("-", "No reasoning model selected")
        ELSE IF provider \in {"openai", "gemini", "groq"}
        THEN IF GuardRejects(isProcessing)
             THEN rejected(provider, BusyMessage)
             ELSE /\ calls' = [calls EXCEPT ![c] =
                       [IdleCall EXCEPT !.pc = "awaitKey", !.path = provider,
                          !.model = IF provider = "groq" THEN model ELSE trimmedModel,
                          !.keyProvider = keyProvider,
                          !.cached = IF keyProvider = "custom" THEN Null
                                     ELSE CacheGet(apiKeyCache, keyProvider)]]
                  /\ lastEvent' = Answered(Event("start", c, provider, "-", "pending", ""),
                                           given)
        ELSE IF provider \in {"anthropic", "local"}
        THEN /\ calls' = [calls EXCEPT ![c] =
                  [IdleCall EXCEPT !.pc = "awaitIpc", !.path = provider, !.model = trimmedModel]]
             /\ lastEvent' = Answered(Event("start", c, provider, "-", "pending", ""), given)
        ELSE rejected("-", "Unsupported reasoning provider: " \o provider)
  /\ UNCHANGED << isProcessing, apiKeyCache, openAiEndpointPreference, settings, lsEndpointPref >>

\* the one request of the Gemini and Groq paths
FixedCandidates(path, model) ==
  IF path = "gemini"
  THEN << [url |-> GEMINI_BASE \o "/models/" \o model \o ":generateContent", type |-> "gemini"] >>
  ELSE << [url |-> buildApiUrl(GROQ_BASE, "/chat/completions"), type |-> "chat"] >>

\* getApiKey(provider) called on its own, up to its await
StartGetApiKey(c, provider) ==
  /\ UNCHANGED << bridgeVars, studioVars, fellBack >>
  /\ calls[c].pc = "idle"
  /\ calls' = [calls EXCEPT ![c] =
       [IdleCall EXCEPT !.pc = "awaitKey", !.path = "getApiKey", !.keyProvider = provider,
          !.cached = IF provider = "custom" THEN Null ELSE CacheGet(apiKeyCache, provider)]]
  /\ lastEvent' = Event("start", c, "getApiKey", "-", "pending", "")
  /\ UNCHANGED << isProcessing, apiKeyCache, openAiEndpointPreference, settings, lsEndpointPref >>

\* getOpenAIEndpointCandidates(base) called on its own; the slot keeps the answer
ResolveCandidates(c, base) ==
  /\ UNCHANGED << bridgeVars, studioVars, fellBack >>
  /\ calls[c].pc = "idle"
  /\ calls' = [calls EXCEPT ![c] =
       [IdleCall EXCEPT !.base = base,
          !.cands = getOpenAIEndpointCandidates(openAiEndpointPreference, lsEndpointPref, base)]]
  /\ openAiEndpointPreference' = MemAfterCandidates(openAiEndpointPreference, lsEndpointPref, base)
  /\ lastEvent' = Event("candidates", c, "openai", "-", "resolved", base)
  /\ UNCHANGED << isProcessing, apiKeyCache, settings, lsEndpointPref >>

\* getApiKey settles; on a key the handler sets the flag, resolves its endpoint(s)
\* and sends the first request
KeySettles(c, ipc) ==
  /\ UNCHANGED << bridgeVars, studioVars, fellBack >>
  /\ calls[c].pc = "awaitKey"
  /\ LET call == calls[c]
         r == getApiKey(call.keyProvider, call.cached, ipc, lsCustomKey, apiKeyCache)
         base == IF call.path = "openai"
                 THEN getConfiguredOpenAIBase(lsProvider, lsBaseUrl) ELSE ""
         answer == [provider |-> call.keyProvider, cached |-> call.cached, ipc |-> ipc]
     IN /\ ipc \in IpcOutcomes(call.keyProvider)
        /\ Truthy(call.cached) => ipc = Null
        /\ apiKeyCache' = r.cache
        /\ IF r.throws
           THEN /\ calls' = [calls EXCEPT ![c] = IdleCall]
                /\ lastEvent' = Answered(Event("key", c, call.path, "-", "rejected", r.error),
                                         answer)
                /\ UNCHANGED << isProcessing, openAiEndpointPreference >>
           ELSE IF call.path = "getApiKey"
           THEN /\ calls' = [calls EXCEPT ![c] = IdleCall]
                /\ lastEvent' = Answered(Event("key", c, call.path, "-", "resolved", r.key),
                                         answer)
                /\ UNCHANGED << isProcessing, openAiEndpointPreference >>
           ELSE /\ isProcessing' = TRUE
                /\ openAiEndpointPreference' =
                     IF call.path = "openai"
                     THEN MemAfterLookup(openAiEndpointPreference, lsEndpointPref, base)
                     ELSE openAiEndpointPreference
                /\ calls' = [calls EXCEPT ![c] =
                     [call EXCEPT !.pc = "awaitFetch", !.apiKey = r.key, !.base = base,
                        !.cands = IF call.path = "openai"
                                  THEN getOpenAIEndpointCandidates(
                                         openAiEndpointPreference, lsEndpointPref, base)
                                  ELSE FixedCandidates(call.path, call.model),
                        !.idx = 1, !.attempt = 1]]
                /\ lastEvent' = Answered(Event("key", c, call.path, "-", "pending", r.key),
                                         answer)
  /\ UNCHANGED << settings, lsEndpointPref >>

\* ------------------------------------------------------------ transport
\* utils/retry.withRetry under createApiRetryStrategy (not part of src/): a failed
\* attempt is repeated while the budget lasts
RetryAllowed(attempt) == attempt < MaxAttempts

\* a handler without the finally block
FlagLeftSet == TRUE

\* the handler's finally block
FlagAfterHandler == FALSE

\* an attempt of call c ends with an error: back off and retry, or give up
AttemptFails(c, call, status, msg, body) ==
  IF RetryAllowed(call.attempt)
  THEN /\ calls' = [calls EXCEPT ![c] = [call EXCEPT !.pc = "backoff"]]
       /\ lastEvent' = Answered(Event("fetch", c, call.path, status, "backoff", msg), body)
       /\ UNCHANGED isProcessing
  ELSE /\ calls' = [calls EXCEPT ![c] = IdleCall]
       /\ lastEvent' = Answered(Event("fetch", c, call.path, status, "rejected", msg), body)
       /\ isProcessing' = FlagAfterHandler

\* a loop that sends the same request again
NextCandidateSameRequest(c, call, status, msg, body) ==
  /\ calls' = [calls EXCEPT ![c] = call]
  /\ lastEvent' = Answered(Event("fetch", c, call.path, status, "next", ""), body)
  /\ UNCHANGED isProcessing

\* processWithOpenAI: `continue` in the loop over the candidates
NextCandidate(c, call, status, msg, body) ==
  IF call.idx < Len(call.cands)
  THEN /\ calls' = [calls EXCEPT ![c] = [call EXCEPT !.idx = @ + 1]]
       /\ lastEvent' = Answered(Event("fetch", c, call.path, status, "next", ""), body)
       /\ UNCHANGED isProcessing
  ELSE AttemptFails(c, call, status, msg, body)

\* the handler returns or throws after the transport
Settles(c, call, status, r, body) ==
  /\ calls' = [calls EXCEPT ![c] = IdleCall]
  /\ lastEvent' = Answered(Event("fetch", c, call.path, status,
                                 IF r.ok THEN "resolved" ELSE "rejected", r.value), body)
  /\ isProcessing' = FlagAfterHandler

BodiesFor(path) == IF path = "gemini" THEN GeminiBodies ELSE OpenAIBodies

Normalize(path, body) ==
  IF path = "openai" THEN NormalizeOpenAI(body, InputText)
  ELSE IF path = "gemini" THEN NormalizeGemini(body)
  ELSE NormalizeChat(body, "Groq")

\* processWithOpenAI: the dialect remembered for a 2xx answer
DialectOnSuccess(type) == type

\* a 2xx answer whose body res.json() rejects
NotJson == [notJson |-> TRUE]

\* a request is answered 2xx; jsonOk = FALSE: the body is not JSON
FetchOk(c, status, body, jsonOk, writeOk) ==
  /\ UNCHANGED << bridgeVars, studioVars >>
  /\ calls[c].pc = "awaitFetch"
  /\ status \in OkStatuses
  /\ body \in BodiesFor(calls[c].path)
  /\ LET call == calls[c]
         type == Current(call).type
     IN /\ IF call.path = "openai"
           THEN /\ openAiEndpointPreference' =
                     Put(openAiEndpointPreference, call.base, DialectOnSuccess(type))
                /\ lsEndpointPref' =
                     StoreAfterRemember(lsEndpointPref, call.base, DialectOnSuccess(type), writeOk)
           ELSE /\ writeOk
                /\ UNCHANGED << openAiEndpointPreference, lsEndpointPref >>
        /\ fellBack' = IF call.path = "openai" /\ call.unsupported /\ type = "chat" /\ jsonOk
                       THEN fellBack \cup {call.base} ELSE fellBack
        /\ IF jsonOk
           THEN Settles(c, call, status, Normalize(call.path, body), body)
           ELSE AttemptFails(c, call, status, "Unexpected token in JSON", NotJson)
  /\ UNCHANGED << apiKeyCache, settings >>

\* the message of the error thrown for a non-2xx answer
ErrorMessage(path, status, errBody) ==
  IF errBody = "json" THEN ServerMessage
  ELSE IF path = "openai" THEN "OpenAI API error: " \o status
  ELSE "upstream unavailable"

\* processWithOpenAI: isUnsupportedEndpoint
IsUnsupportedEndpoint(status, type) == (status = "404" \/ status = "405") /\ type = "responses"

\* processWithOpenAI: the catch block inside the loop goes on to the next candidate
FallsBack(type) == type = "responses"

\* a request is answered with a non-2xx status
FetchError(c, status, errBody, writeOk) ==
  /\ UNCHANGED << bridgeVars, studioVars, fellBack >>
  /\ calls[c].pc = "awaitFetch"
  /\ status \in ErrorStatuses
  /\ errBody \in ErrorBodies
  /\ LET call == calls[c]
         type == Current(call).type
         msg == ErrorMessage(call.path, status, errBody)
         answer == [error |-> errBody]
     IN IF call.path = "openai" /\ IsUnsupportedEndpoint(status, type)
        THEN /\ openAiEndpointPreference' = Put(openAiEndpointPreference, call.base, "chat")
             /\ lsEndpointPref' = StoreAfterRemember(lsEndpointPref, call.base, "chat", writeOk)
             /\ NextCandidate(c, [call EXCEPT !.unsupported = TRUE], status, msg, answer)
        ELSE /\ writeOk
             /\ UNCHANGED << openAiEndpointPreference, lsEndpointPref >>
             /\ IF call.path = "openai" /\ FallsBack(type)
                THEN NextCandidate(c, call, status, msg, answer)
                ELSE AttemptFails(c, call, status, msg, answer)
  /\ UNCHANGED << apiKeyCache, settings >>

\* fetch rejects (no answer)
FetchNetworkError(c) ==
  /\ UNCHANGED << bridgeVars, studioVars, fellBack >>
  /\ calls[c].pc = "awaitFetch"
  /\ LET call == calls[c]
     IN IF call.path = "openai" /\ FallsBack(Current(call).type)
        THEN NextCandidate(c, call, "neterr", "Failed to fetch", NoBody)
        ELSE AttemptFails(c, call, "neterr", "Failed to fetch", NoBody)
  /\ UNCHANGED << apiKeyCache, openAiEndpointPreference, settings, lsEndpointPref >>

\* the backoff delay ends: the next attempt starts again at the first candidate
RetryFires(c) ==
  /\ UNCHANGED << bridgeVars, studioVars, fellBack >>
  /\ calls[c].pc = "backoff"
  /\ calls' = [calls EXCEPT ![c] =
       [@ EXCEPT !.pc = "awaitFetch", !.attempt = @ + 1, !.idx = 1]]
  /\ lastEvent' = Event("retry", c, calls[c].path, "-", "pending", "")
  /\ UNCHANGED << isProcessing, apiKeyCache, openAiEndpointPreference, settings, lsEndpointPref >>

\* processWithAnthropic / processWithLocal: the IPC call answers {success, text | error}
IpcSettles(c, success) ==
  /\ UNCHANGED << bridgeVars, studioVars, fellBack >>
  /\ calls[c].pc = "awaitIpc"
  /\ calls' = [calls EXCEPT ![c] = IdleCall]
  /\ lastEvent' = IF success THEN Event("ipc", c, calls[c].path, "-", "resolved", "ipc text")
                  ELSE Event("ipc", c, calls[c].path, "-", "rejected", "ipc error")
  /\ UNCHANGED << isProcessing, apiKeyCache, openAiEndpointPreference, settings, lsEndpointPref >>

\* ------------------------------------------------------------ other operations
ClearApiKeyCache(p) ==
  /\ UNCHANGED << bridgeVars, studioVars, fellBack >>
  /\ apiKeyCache' = clearApiKeyCache(apiKeyCache, p)
  /\ lastEvent' = Event("clear", 0, "-", "-", "-", OrElse(p, "all"))
  /\ UNCHANGED << isProcessing, openAiEndpointPreference, settings, lsEndpointPref, calls >>

\* SecureCache auto-cleanup: an entry expires
CacheExpires(p) ==
  /\ UNCHANGED << bridgeVars, studioVars, fellBack >>
  /\ p \in DOMAIN apiKeyCache
  /\ apiKeyCache' = Remove(apiKeyCache, p)
  /\ lastEvent' = Event("expire", 0, "-", "-", "-", p)
  /\ UNCHANGED << isProcessing, openAiEndpointPreference, settings, lsEndpointPref, calls >>

\* the settings UI writes the provider, the custom base URL or the custom key
SetProvider(v) ==
  /\ UNCHANGED << bridgeVars, studioVars, fellBack >>
  /\ v # lsProvider
  /\ lsProvider' = v
  /\ lastEvent' = Event("setting", 0, "-", "-", "-", "reasoningProvider")
  /\ UNCHANGED << isProcessing, apiKeyCache, openAiEndpointPreference, lsBaseUrl, lsCustomKey,
                  lsEndpointPref, calls >>

SetBaseUrl(v) ==
  /\ UNCHANGED << bridgeVars, studioVars, fellBack >>
  /\ v # lsBaseUrl
  /\ lsBaseUrl' = v
  /\ lastEvent' = Event("setting", 0, "-", "-", "-", "cloudReasoningBaseUrl")
  /\ UNCHANGED << isProcessing, apiKeyCache, openAiEndpointPreference, lsProvider, lsCustomKey,
                  lsEndpointPref, calls >>

SetCustomKey(v) ==
  /\ UNCHANGED << bridgeVars, studioVars, fellBack >>
  /\ v # lsCustomKey
  /\ lsCustomKey' = v
  /\ lastEvent' = Event("setting", 0, "-", "-", "-", "customReasoningApiKey")
  /\ UNCHANGED << isProcessing, apiKeyCache, openAiEndpointPreference, lsProvider, lsBaseUrl,
                  lsEndpointPref, calls >>

\* ------------------------------------------------------------ local bridge
\* LocalReasoningService.processText: the busy guard
LocalGuardRejects(flag) == flag

\* the flag is left as it was
LocalFlagNotSet == localIsProcessing

\* LocalReasoningService.processText: this.isProcessing = true, before the first await
LocalFlagAfterGuard == TRUE

LocalIdleCall == [pc |-> "idle", modelId |-> ""]

\* processText up to its first await.  The copy under services/ first refuses when
\* REASONING_PROVIDER names another provider and looks the model up before the
\* inference; the other copy goes straight to runInference.
LocalStart(c, modelId) ==
  /\ UNCHANGED << dispatcherVars, studioVars >>
  /\ localCalls[c].pc = "idle"
  /\ UNCHANGED << bridgeSource, envProvider >>
  /\ IF bridgeSource = "services" /\ Truthy(envProvider) /\ envProvider # "local"
     THEN /\ localEvent' = Event("start", c, "local", "-", "rejected",
                "Local reasoning is disabled while provider is set to " \o envProvider)
          /\ UNCHANGED << localIsProcessing, localCalls >>
     ELSE IF LocalGuardRejects(localIsProcessing)
     THEN /\ localEvent' = Event("start", c, "local", "-", "rejected", BusyMessage)
          /\ UNCHANGED << localIsProcessing, localCalls >>
     ELSE /\ localIsProcessing' = LocalFlagAfterGuard
          /\ localCalls' = [localCalls EXCEPT ![c] =
               [pc |-> IF bridgeSource = "services" THEN "awaitModels" ELSE "awaitInference",
                modelId |-> modelId]]
          /\ localEvent' = Event("start", c, "local", "-", "pending", "")

\* modelManager.getAllModels settles: "downloaded", "missing" (not found or not
\* downloaded) or "throws"
LocalModelsSettle(c, answer) ==
  /\ UNCHANGED << dispatcherVars, studioVars >>
  /\ localCalls[c].pc = "awaitModels"
  /\ UNCHANGED << bridgeSource, envProvider >>
  /\ IF answer = "downloaded"
     THEN /\ localCalls' = [localCalls EXCEPT ![c].pc = "awaitInference"]
          /\ localEvent' = Event("models", c, "local", "-", "pending", "")
          /\ UNCHANGED localIsProcessing
     ELSE /\ localCalls' = [localCalls EXCEPT ![c] = LocalIdleCall]
          /\ localEvent' = Event("models", c, "local", "-", "rejected",
                IF answer = "missing"
                THEN "Local model " \o localCalls[c].modelId \o " is not downloaded"
                ELSE "model manager failed")
          /\ localIsProcessing' = FALSE

\* modelManager.runInference settles
LocalInferenceSettles(c, ok) ==
  /\ UNCHANGED << dispatcherVars, studioVars >>
  /\ localCalls[c].pc = "awaitInference"
  /\ UNCHANGED << bridgeSource, envProvider >>
  /\ localCalls' = [localCalls EXCEPT ![c] = LocalIdleCall]
  /\ localEvent' = IF ok THEN Event("inference", c, "local", "-", "resolved", "local text")
                   ELSE Event("inference", c, "local", "-", "rejected", "inference failed")
  /\ localIsProcessing' = FALSE

\* ------------------------------------------------------------ specifications
\* Spec: concurrent callers on all five provider paths of one ReasoningService
GuardModels == {"", "gpt-5-mini", "gemini-2.5-flash", "qwen/qwen3-32b", "claude-sonnet-4", "qwen2.5-7b"}

GuardKeys == {Null, "sk-openai", "sk-gemini", "sk-groq"}

GuardBodies == {ChatResponse(StringContent(" chat text ")), GeminiResponse(" gemini text ", "STOP")}

InitGuard ==
  /\ isProcessing = FALSE
  /\ apiKeyCache = EmptyMap
  /\ openAiEndpointPreference = EmptyMap
  /\ lsProvider = Null
  /\ lsBaseUrl = Null
  /\ lsCustomKey = Null
  /\ lsEndpointPref = StoredAbsent
  /\ calls = [c \in CallIds |-> IdleCall]
  /\ lastEvent = NoEvent
  /\ fellBack = {}
  /\ BridgeIdle
  /\ StudioIdle

Next ==
  \/ \E c \in CallIds, m \in GuardModels : StartCall(c, m)
  \/ \E c \in CallIds, k \in GuardKeys : KeySettles(c, k)
  \/ \E c \in CallIds, b \in GuardBodies : FetchOk(c, "200", b, TRUE, TRUE)
  \/ \E c \in CallIds, st \in {"404", "500"} : FetchError(c, st, "json", TRUE)
  \/ \E c \in CallIds : FetchNetworkError(c)
  \/ \E c \in CallIds : RetryFires(c)
  \/ \E c \in CallIds, ok \in BOOLEAN : IpcSettles(c, ok)

Spec == InitGuard /\ [][Next]_vars

\* SpecLocal: concurrent callers of one LocalReasoningService
LocalModels == {"qwen2.5-7b", "llama-3.2-3b", "missing-model"}

InitLocal ==
  /\ isProcessing = FALSE
  /\ apiKeyCache = EmptyMap
  /\ openAiEndpointPreference = EmptyMap
  /\ lsProvider = Null
  /\ lsBaseUrl = Null
  /\ lsCustomKey = Null
  /\ lsEndpointPref = StoredAbsent
  /\ calls = [c \in CallIds |-> IdleCall]
  /\ lastEvent = NoEvent
  /\ fellBack = {}
  /\ bridgeSource \in {"services", "part_001"}
  /\ envProvider \in {Null, "local", "openai"}
  /\ localIsProcessing = FALSE
  /\ localCalls = [c \in CallIds |-> LocalIdleCall]
  /\ localEvent = NoEvent
  /\ StudioIdle

NextLocal ==
  \/ \E c \in CallIds, m \in LocalModels : LocalStart(c, m)
  \/ \E c \in CallIds, a \in {"downloaded", "missing", "throws"} : LocalModelsSettle(c, a)
  \/ \E c \in CallIds, ok \in BOOLEAN : LocalInferenceSettles(c, ok)

SpecLocal == InitLocal /\ [][NextLocal]_vars

\* SpecCandidates: getOpenAIEndpointCandidates over bases, remembered and stored
\* preferences
CandidateBases ==
  { OPENAI_BASE, CustomBase, CustomBase \o "/responses", CustomBase \o "/chat/completions",
    "https://llm.example.com/V1/Responses" }

CandidateMems ==
  { EmptyMap, Put(EmptyMap, CustomBase, "chat"), Put(EmptyMap, CustomBase, "responses"),
    Put(EmptyMap, OPENAI_BASE, "chat") }

InitCandidates ==
  /\ isProcessing = FALSE
  /\ apiKeyCache = EmptyMap
  /\ openAiEndpointPreference \in CandidateMems
  /\ lsProvider = Null
  /\ lsBaseUrl = Null
  /\ lsCustomKey = Null
  /\ lsEndpointPref \in StoredPrefs
  /\ calls = [c \in CallIds |-> IdleCall]
  /\ lastEvent = NoEvent
  /\ fellBack = {}
  /\ BridgeIdle
  /\ StudioIdle

\* one caller: the function is applied to one base after another
CandidateCallers == {1}

NextCandidates == \E c \in CandidateCallers, b \in CandidateBases : ResolveCandidates(c, b)

SpecCandidates == InitCandidates /\ [][NextCandidates]_vars

\* SpecDialect: the transport of the OpenAI path, with every kind of answer, against
\* the default and a custom base
DialectModels == {"gpt-5-mini"}

DialectKeys == {Null, " sk-custom ", "sk-openai"}

DialectBodies ==
  { ChatResponse(StringContent(" chat text ")), ChatResponse(StringContent("")),
    ResponsesResponse("responses text") }

DialectStores ==
  { StoredAbsent, StoredCorrupt,
    StoredObject(Put(Put(EmptyMap, OPENAI_BASE, "responses"), CustomBase, "junk")) }

InitDialect ==
  /\ isProcessing = FALSE
  /\ apiKeyCache = EmptyMap
  /\ openAiEndpointPreference = EmptyMap
  /\ lsProvider \in ProviderSettings
  /\ lsBaseUrl \in {CustomBase, CustomBase \o "/responses"}
  /\ lsCustomKey = Null
  /\ lsEndpointPref \in DialectStores
  /\ calls = [c \in CallIds |-> IdleCall]
  /\ lastEvent = NoEvent
  /\ fellBack = {}
  /\ BridgeIdle
  /\ StudioIdle

\* the transports are followed for one caller at a time
DialectCallers == {1}

NextDialect ==
  \/ \E c \in DialectCallers, m \in DialectModels : StartCall(c, m)
  \/ \E c \in DialectCallers, k \in DialectKeys : KeySettles(c, k)
  \/ \E c \in DialectCallers, b \in DialectBodies, jsonOk, writeOk \in BOOLEAN :
        FetchOk(c, "200", b, jsonOk, writeOk)
  \/ \E c \in DialectCallers, st \in ErrorStatuses, eb \in ErrorBodies, writeOk \in BOOLEAN :
        FetchError(c, st, eb, writeOk)
  \/ \E c \in DialectCallers : FetchNetworkError(c)
  \/ \E c \in DialectCallers : RetryFires(c)
  \/ \E v \in ProviderSettings : SetProvider(v)

SpecDialect == InitDialect /\ [][NextDialect]_vars

\* SpecKey: getApiKey for every provider, alone and inside processText, against
\* every answer of the secure store, with the cache cleared and expiring
KeyModels == {"gpt-5-mini", "gemini-2.5-flash"}

KeyAnswers ==
  UNION {IpcOutcomes(p) : p \in CacheProviders}

KeyBodies == {ChatResponse(StringContent(" chat text ")), GeminiResponse(" gemini text ", "STOP")}

InitKey ==
  /\ isProcessing = FALSE
  /\ apiKeyCache = EmptyMap
  /\ openAiEndpointPreference = EmptyMap
  /\ lsProvider \in ProviderSettings
  /\ lsBaseUrl = CustomBase \o "/chat/completions"
  /\ lsCustomKey \in CustomKeySettings
  /\ lsEndpointPref = StoredAbsent
  /\ calls = [c \in CallIds |-> IdleCall]
  /\ lastEvent = NoEvent
  /\ fellBack = {}
  /\ BridgeIdle
  /\ StudioIdle

\* the key is followed for one caller at a time
KeyCallers == {1}

NextKey ==
  \/ \E c \in KeyCallers, p \in CacheProviders : StartGetApiKey(c, p)
  \/ \E c \in KeyCallers, m \in KeyModels : StartCall(c, m)
  \/ \E c \in KeyCallers, k \in KeyAnswers : KeySettles(c, k)
  \/ \E c \in KeyCallers, b \in KeyBodies : FetchOk(c, "200", b, TRUE, TRUE)
  \/ \E p \in CacheProviders \cup {Null} : ClearApiKeyCache(p)
  \/ \E p \in CacheProviders : CacheExpires(p)
  \/ \E v \in CustomKeySettings : SetCustomKey(v)

SpecKey == InitKey /\ [][NextKey]_vars

\* ------------------------------------------------------------ properties

CloudPaths == {"openai", "gemini", "groq"}

\* a processText call that has started and not yet settled
Pending(c) == calls[c].pc # "idle"

\* a pending call that went through the busy guard of a cloud handler
PastGuard(c) == Pending(c) /\ calls[c].path \in CloudPaths

\* the step starts a call in slot c (it is routed, then passes or is rejected)
StartsCall(c) == calls[c].pc = "idle" /\ lastEvent'.op = "start" /\ lastEvent'.call = c

RejectedBusy(e) == e.op = "start" /\ e.outcome = "rejected" /\ e.value = BusyMessage

\* C1 (as claimed): a cloud call started while an earlier cloud call is pending, at any
\* point of that call, is rejected as busy, so two calls are never past the guard together
C1_BusyGuardWhilePending ==
  [][\A c \in CallIds :
       (StartsCall(c) /\ lastEvent'.path \in CloudPaths
          /\ \E d \in CallIds \ {c} : PastGuard(d))
       => (RejectedBusy(lastEvent') /\ ~Pending(c)')]_vars

LocalPending(c) == localCalls[c].pc # "idle"

LocalStartsCall(c) ==
  localCalls[c].pc = "idle" /\ localEvent'.op = "start" /\ localEvent'.call = c

\* C3: a bridge call started while an earlier one is pending (model lookup or
\* inference) throws the busy error and starts no inference; at most one call, hence at
\* most one inference, is in flight
C3_LocalBusyGuard ==
  [][/\ \A c \in CallIds :
          (LocalStartsCall(c) /\ \E d \in CallIds \ {c} : LocalPending(d))
          => /\ localEvent'.outcome = "rejected" /\ localEvent'.value = BusyMessage
             /\ localCalls' = localCalls
     /\ \A c, d \in CallIds : (LocalPending(c)' /\ LocalPending(d)') => c = d]_vars

\* a second call is turned away while the first awaits its inference
C3_Witness ==
  /\ localEvent.op = "start" /\ localEvent.outcome = "rejected"
  /\ localEvent.value = BusyMessage
  /\ \E d \in CallIds \ {localEvent.call} : localCalls[d].pc = "awaitInference"

\* the base names its dialect (compared in lower case)
HasDialectSuffix(base) ==
  EndsWith(ToLowerCase(base), "/responses") \/ EndsWith(ToLowerCase(base), "/chat/completions")

SuffixCandidate(base) ==
  << [url |-> base,
      type |-> IF EndsWith(ToLowerCase(base), "/responses") THEN "responses" ELSE "chat"] >>

ResponsesCandidate(base) == [url |-> base \o "/responses", type |-> "responses"]

ChatCandidate(base) == [url |-> base \o "/chat/completions", type |-> "chat"]

\* the step is a call of getOpenAIEndpointCandidates(base) in slot c
ResolvesCandidates(c, base) ==
  lastEvent'.op = "candidates" /\ lastEvent'.call = c /\ lastEvent'.value = base

\* the preference remembered for base before the step
Remembered(base) == getStoredOpenAiPreference(openAiEndpointPreference, lsEndpointPref, base)

\* C7 (as claimed): one candidate for a base with a dialect suffix; else one candidate
\* of the remembered dialect, 'responses' or 'chat'; else [responses, chat]
C7_OneCandidatePerPreference ==
  [][\A c \in CallIds, base \in CandidateBases :
       ResolvesCandidates(c, base)
       => calls'[c].cands =
            IF HasDialectSuffix(base) THEN SuffixCandidate(base)
            ELSE IF Remembered(base) = "chat" THEN << ChatCandidate(base) >>
            ELSE IF Remembered(base) = "responses" THEN << ResponsesCandidate(base) >>
            ELSE << ResponsesCandidate(base), ChatCandidate(base) >>]_vars

\* C7 (amended): one candidate, the base itself, for a base whose lower-cased form
\* ends in a dialect suffix; else the chat candidate alone when 'chat' is remembered;
\* else, with no preference or with 'responses' remembered, [responses, chat]
C7_CandidatesByPreference ==
  [][\A c \in CallIds, base \in CandidateBases :
       ResolvesCandidates(c, base)
       => calls'[c].cands =
            IF HasDialectSuffix(base) THEN SuffixCandidate(base)
            ELSE IF Remembered(base) = "chat" THEN << ChatCandidate(base) >>
            ELSE << ResponsesCandidate(base), ChatCandidate(base) >>]_vars

\* the candidates of a base whose remembered preference is 'responses'
C7_Witness ==
  /\ lastEvent.op = "candidates"
  /\ ~HasDialectSuffix(lastEvent.value)
  /\ Get(openAiEndpointPreference, lastEvent.value) = "responses"
  /\ Len(calls[lastEvent.call].cands) = 2

\* the step is the answer (or the failure) of the request call c is waiting for
FetchStep(c) ==
  calls[c].pc = "awaitFetch" /\ lastEvent'.op = "fetch" /\ lastEvent'.call = c

\* the step in which call c gets its key and sends its first request
FirstRequest(c) ==
  calls[c].pc = "awaitKey" /\ lastEvent'.op = "key" /\ lastEvent'.call = c
    /\ calls'[c].pc = "awaitFetch"

UnsupportedStatuses == {"404", "405"}

\* C4 (as claimed): when the responses candidate answered 404 and the chat candidate
\* answers 200, the call resolves with the chat response's text and 'chat' is remembered
\* for the base in memory and in storage; a call for a base that fell back this way
\* sends its first request to the chat URL, having only that candidate
C4_FallbackThenChatOnly ==
  [][\A c \in CallIds :
       /\ (FetchStep(c) /\ calls[c].path = "openai" /\ calls[c].unsupported
             /\ Current(calls[c]).type = "chat" /\ lastEvent'.status = "200")
          => /\ lastEvent'.outcome = "resolved"
             /\ lastEvent'.body = ChatResponse(StringContent(" chat text "))
                  => lastEvent'.value = "chat text"
             /\ Get(openAiEndpointPreference', calls[c].base) = "chat"
             /\ StoredPreferenceValue(lsEndpointPref', calls[c].base) = "chat"
       /\ (FirstRequest(c) /\ calls'[c].path = "openai" /\ calls'[c].base \in fellBack)
          => calls'[c].cands = << ChatCandidate(calls'[c].base) >>]_vars

\* C5 (as claimed): a 404 or 405 from a responses request makes the same attempt go on
\* to the chat candidate and records 'chat', whatever the base, and no retry of a call
\* that got such an answer sends to the responses URL again
C5_UnsupportedNeverTerminal ==
  [][\A c \in CallIds :
       /\ (FetchStep(c) /\ calls[c].path = "openai" /\ Current(calls[c]).type = "responses"
             /\ lastEvent'.status \in UnsupportedStatuses)
          => /\ lastEvent'.outcome = "next"
             /\ calls'[c].attempt = calls[c].attempt
             /\ Current(calls'[c]).type = "chat"
             /\ Get(openAiEndpointPreference', calls[c].base) = "chat"
       /\ (lastEvent'.op = "retry" /\ lastEvent'.call = c /\ calls[c].unsupported)
          => Current(calls'[c]).type # "responses"]_vars

\* C6 (as claimed): on the OpenAI, Groq and Gemini paths a non-2xx answer other than a
\* 404/405 on the responses dialect fails the attempt with the server's message (or
\* the status message), tries no further candidate and changes no preference
C6_ErrorFailsAttempt ==
  [][\A c \in CallIds :
       (FetchStep(c) /\ calls[c].path \in CloudPaths /\ lastEvent'.status \in ErrorStatuses
          /\ ~(lastEvent'.status \in UnsupportedStatuses /\ Current(calls[c]).type = "responses"))
       => /\ lastEvent'.outcome \in {"backoff", "rejected"}
          /\ lastEvent'.value =
               IF lastEvent'.body = [error |-> "json"] THEN ServerMessage
               ELSE IF calls[c].path = "openai" THEN "OpenAI API error: " \o lastEvent'.status
               ELSE "upstream unavailable"
          /\ openAiEndpointPreference' = openAiEndpointPreference
          /\ lsEndpointPref' = lsEndpointPref]_vars

\* the entry of base in the stored preference object (Null when there is none)
StoredEntry(store, base) == IF store.kind = "object" THEN Get(store.map, base) ELSE Null

\* C8: the stored preferences change only in the step that answers a request of an
\* OpenAI call, 2xx (the base gets the candidate's dialect) or 404/405 on the responses
\* dialect (the base gets 'chat'); the write keeps the entries of all other bases
C8_StoredPreferenceFrame ==
  [][lsEndpointPref' # lsEndpointPref
       => \E c \in CallIds :
            /\ FetchStep(c) /\ calls[c].path = "openai"
            /\ StartsWith(Current(calls[c]).url, calls[c].base)
            /\ \/ /\ lastEvent'.status \in OkStatuses
                  /\ StoredEntry(lsEndpointPref', calls[c].base) = Current(calls[c]).type
               \/ /\ lastEvent'.status \in UnsupportedStatuses
                  /\ Current(calls[c]).type = "responses"
                  /\ StoredEntry(lsEndpointPref', calls[c].base) = "chat"
            /\ lsEndpointPref'.kind = "object"
            /\ \A b \in (DOMAIN lsEndpointPref.map \cup DOMAIN lsEndpointPref'.map) \ {calls[c].base} :
                 StoredEntry(lsEndpointPref', b) = StoredEntry(lsEndpointPref, b)]_vars

\* 'chat' was written for the custom base next to the entry of the default base
C8_Witness ==
  /\ lastEvent.op = "fetch"
  /\ StoredEntry(lsEndpointPref, OPENAI_BASE) = "responses"
  /\ StoredEntry(lsEndpointPref, CustomBase) = "chat"

\* the step in which getApiKey settles for call c
KeyStep(c) == calls[c].pc = "awaitKey" /\ lastEvent'.op = "key" /\ lastEvent'.call = c

\* a source that yields no secret: nothing, a failure, or only white space
Blank(v) == v = Null \/ v = IpcThrow \/ Trim(v) = ""

NotConfigured(p) ==
  CASE p = "openai" -> "Openai API key not configured"
    [] p = "anthropic" -> "Anthropic API key not configured"
    [] p = "gemini" -> "Gemini API key not configured"
    [] p = "groq" -> "Groq API key not configured"
    [] OTHER -> "Custom API key not configured"

\* C9 (as claimed): for each of the five providers getApiKey returns a non-blank secret
\* or fails with '<Provider> API key not configured', and it fails exactly when the
\* cache, the secure store and (for 'custom') the local setting yield no secret; the
\* failed call sends no request
C9_KeyOrNotConfigured ==
  [][\A c \in CallIds :
       KeyStep(c)
       => LET p == calls[c].keyProvider
              answer == lastEvent'.body
              noSecret == /\ Blank(answer.cached) /\ Blank(answer.ipc)
                          /\ p = "custom" => Blank(lsCustomKey)
          IN /\ (lastEvent'.outcome = "rejected") <=> noSecret
             /\ lastEvent'.outcome = "rejected"
                  => /\ lastEvent'.value = NotConfigured(p)
                     /\ calls'[c].pc = "idle"
             /\ lastEvent'.outcome # "rejected" => ~Blank(lastEvent'.value)]_vars

\* C9 (amended): for openai, anthropic, gemini and groq getApiKey fails with
\* '<Provider> API key not configured' exactly when the cache holds no key and the
\* secure store fails or answers nothing or the empty string, the failed call then ends
\* without a request, and otherwise the cached or fetched key is returned as it is
\* (possibly only white space); for 'custom' getApiKey never fails: it returns the
\* trimmed secure-store key, else the trimmed local setting, else the empty string,
\* and processText sends its request with that key all the same
C9_KeyResolution ==
  [][\A c \in CallIds :
       KeyStep(c)
       => LET p == calls[c].keyProvider
              answer == lastEvent'.body
          IN IF p = "custom"
             THEN /\ lastEvent'.outcome # "rejected"
                  /\ lastEvent'.value =
                       IF ~Blank(answer.ipc) THEN Trim(answer.ipc)
                       ELSE IF ~Blank(lsCustomKey) THEN Trim(lsCustomKey)
                       ELSE ""
                  /\ calls[c].path = "openai"
                       => calls'[c].pc = "awaitFetch" /\ calls'[c].apiKey = lastEvent'.value
             ELSE /\ (lastEvent'.outcome = "rejected")
                       <=> (answer.cached \in {Null, ""} /\ answer.ipc \in {IpcThrow, Null, ""})
                  /\ lastEvent'.outcome = "rejected"
                       => /\ lastEvent'.value = NotConfigured(p)
                          /\ calls'[c].pc = "idle"
                          /\ isProcessing' = isProcessing
                  /\ lastEvent'.outcome # "rejected"
                       => lastEvent'.value =
                            IF answer.cached \notin {Null, ""} THEN answer.cached ELSE answer.ipc]_vars

\* a processText call of the custom provider has sent its request with an empty key
C9_Witness ==
  \E c \in CallIds :
    /\ calls[c].pc = "awaitFetch" /\ calls[c].keyProvider = "custom" /\ calls[c].apiKey = ""
    /\ lastEvent.op = "key" /\ lastEvent.call = c

CustomSecrets == {" sk-custom ", "sk-custom", "sk-custom-ls"}

\* C10: the cache never holds an entry for 'custom' nor the custom secret under any
\* provider, and an entry for provider p is written only in the step in which getApiKey(p)
\* got a non-empty key from the secure store
C10_CustomNeverCached ==
  [][/\ "custom" \notin DOMAIN apiKeyCache'
     /\ \A p \in DOMAIN apiKeyCache' : apiKeyCache'[p] \notin CustomSecrets
     /\ \A p \in CacheProviders :
          (p \in DOMAIN apiKeyCache' /\ Get(apiKeyCache', p) # Get(apiKeyCache, p))
          => \E c \in CallIds :
               /\ KeyStep(c) /\ calls[c].keyProvider = p
               /\ lastEvent'.body.ipc \notin {IpcThrow, Null, ""}
               /\ apiKeyCache'[p] = lastEvent'.body.ipc]_vars

\* the custom key was resolved while the cache holds another provider's key
C10_Witness ==
  /\ lastEvent.op = "key" /\ lastEvent.body.provider = "custom"
  /\ lastEvent.value \in CustomSecrets
  /\ DOMAIN apiKeyCache # {}

\* ------------------------------------------------------------ retry
\* SpecRetry: one call at a time on each of the five provider paths, every answer the
\* transport can get, and every await eventually settled
RetryModels == {"gpt-5-mini", "gemini-2.5-flash", "qwen/qwen3-32b", "claude-sonnet-4", "qwen2.5-7b"}

RetryKeys == {Null, "sk-openai", "sk-gemini", "sk-groq", " sk-custom "}

RetryBodies == {ChatResponse(StringContent(" chat text ")), GeminiResponse(" gemini text ", "STOP")}

InitRetry ==
  /\ isProcessing = FALSE
  /\ apiKeyCache = EmptyMap
  /\ openAiEndpointPreference = EmptyMap
  /\ lsProvider \in ProviderSettings
  /\ lsBaseUrl = CustomBase \o "/responses"
  /\ lsCustomKey = Null
  /\ lsEndpointPref = StoredAbsent
  /\ calls = [c \in CallIds |-> IdleCall]
  /\ lastEvent = NoEvent
  /\ fellBack = {}
  /\ BridgeIdle
  /\ StudioIdle

RetryCallers == {1}

\* an await of the transport of call c settles: a request is answered or fails, the
\* backoff delay ends, the IPC call answers
TransportSettles(c) ==
  \/ \E b \in RetryBodies, jsonOk \in BOOLEAN : FetchOk(c, "200", b, jsonOk, TRUE)
  \/ \E st \in ErrorStatuses, eb \in ErrorBodies : FetchError(c, st, eb, TRUE)
  \/ FetchNetworkError(c)
  \/ RetryFires(c)
  \/ \E ok \in BOOLEAN : IpcSettles(c, ok)

NextRetry ==
  \/ \E c \in RetryCallers, m \in RetryModels : StartCall(c, m)
  \/ \E c \in RetryCallers, k \in RetryKeys : KeySettles(c, k)
  \/ \E c \in RetryCallers : TransportSettles(c)

\* fetch, the backoff timer and the IPC call all settle in the end
SpecRetry ==
  InitRetry /\ [][NextRetry]_vars /\ \A c \in RetryCallers : WF_vars(TransportSettles(c))

\* the outbound call of call c fails in this step: the request is not answered or is
\* answered non-2xx, or the IPC call reports a failure
FailureStatuses == ErrorStatuses \cup {"neterr"}

TransientFailure(c) ==
  /\ lastEvent'.call = c
  /\ \/ lastEvent'.op = "fetch" /\ lastEvent'.status \in FailureStatuses
     \/ lastEvent'.op = "ipc" /\ lastEvent'.outcome = "rejected"

\* the attempts call c has made of its outbound call
AttemptsUsed(c) == IF calls[c].pc = "awaitIpc" THEN 1 ELSE calls[c].attempt

\* the message of the error a failed request throws
FailureMessage(e) ==
  IF e.status = "neterr" THEN "Failed to fetch"
  ELSE IF e.body = [error |-> "json"] THEN ServerMessage
  ELSE IF e.path = "openai" THEN "OpenAI API error: " \o e.status
  ELSE "upstream unavailable"

AttemptsBounded == \A c \in CallIds : calls[c].attempt <= MaxAttempts

\* call c has made its outbound call (or waits to repeat it) and has not settled
InTransport(c) == calls[c].pc \in {"awaitFetch", "backoff", "awaitIpc"}

CallTerminates == \A c \in CallIds : InTransport(c) ~> (calls[c].pc = "idle")

\* the error that reaches the caller when the transport gives up is the last attempt's
LastErrorSurfaced ==
  [][\A c \in CallIds :
       TransientFailure(c) /\ lastEvent'.op = "fetch" /\ lastEvent'.outcome = "rejected"
       => /\ calls[c].attempt = MaxAttempts
          /\ lastEvent'.value = FailureMessage(lastEvent')]_vars

\* C11 (as claimed): on every path (OpenAI, Groq, Gemini, Anthropic, local) a failed
\* outbound call is retried while the budget lasts, the attempts of a call never
\* exceed the budget, the call terminates, and the error surfaced on exhaustion is
\* the last attempt's
C11_UniformRetry ==
  /\ [][\A c \in CallIds :
          TransientFailure(c) /\ AttemptsUsed(c) < MaxAttempts
          => lastEvent'.outcome # "rejected"]_vars
  /\ []AttemptsBounded
  /\ CallTerminates
  /\ LastErrorSurfaced

\* C11 (amended): the OpenAI, Groq and Gemini paths retry a failed request while the
\* budget lasts, never exceed it, and surface the last attempt's error; the Anthropic
\* and local paths make their IPC call once and surface its failure at once; every
\* call terminates
C11_RetryOnHttpPaths ==
  /\ [][\A c \in CallIds :
          TransientFailure(c)
          => IF lastEvent'.path \in CloudPaths
             THEN AttemptsUsed(c) < MaxAttempts => lastEvent'.outcome # "rejected"
             ELSE lastEvent'.outcome = "rejected" /\ calls'[c].pc = "idle"]_vars
  /\ [](\A c \in CallIds : calls[c].path \notin CloudPaths => calls[c].pc # "backoff")
  /\ []AttemptsBounded
  /\ CallTerminates
  /\ LastErrorSurfaced

\* a call gave up after its last attempt failed
C11_Witness ==
  /\ lastEvent.op = "fetch"
  /\ lastEvent.outcome = "rejected"
  /\ lastEvent.status \in FailureStatuses

\* ------------------------------------------------------------ normalizers
\* SpecNormalize: one call at a time on the OpenAI, Groq and Gemini paths, each answered
\* 2xx with every response body of BodiesFor
NormalizeModels == {"gpt-5-mini", "gemini-2.5-flash", "qwen/qwen3-32b"}

NormalizeKeys == {"sk-openai", "sk-gemini", "sk-groq"}

InitNormalize ==
  /\ isProcessing = FALSE
  /\ apiKeyCache = EmptyMap
  /\ openAiEndpointPreference = EmptyMap
  /\ lsProvider = Null
  /\ lsBaseUrl = Null
  /\ lsCustomKey = Null
  /\ lsEndpointPref \in {StoredAbsent, StoredObject(Put(EmptyMap, OPENAI_BASE, "chat"))}
  /\ calls = [c \in CallIds |-> IdleCall]
  /\ lastEvent = NoEvent
  /\ fellBack = {}
  /\ BridgeIdle
  /\ StudioIdle

NormalizeCallers == {1}

NextNormalize ==
  \/ \E c \in NormalizeCallers, m \in NormalizeModels : StartCall(c, m)
  \/ \E c \in NormalizeCallers, k \in NormalizeKeys : KeySettles(c, k)
  \/ \E c \in NormalizeCallers, b \in OpenAIBodies \cup GeminiBodies : FetchOk(c, "200", b, TRUE, TRUE)

SpecNormalize == InitNormalize /\ [][NextNormalize]_vars

\* a request of call c on the given path is answered 2xx with a JSON body
AnsweredOk(c, path) ==
  /\ FetchStep(c)
  /\ lastEvent'.path = path
  /\ lastEvent'.status \in OkStatuses
  /\ lastEvent'.body # NotJson

\* a text field that holds nothing to return
BlankText(t) == t = Null \/ Trim(t) = ""

\* every text field of a message or delta
ContentTexts(m) ==
  (IF m.kind = "string" THEN {m.str} ELSE {})
    \cup (IF m.kind = "array" THEN {m.parts[i] : i \in DOMAIN m.parts} ELSE {})

\* every text field of an OpenAI response body
TextsOf(b) ==
  {b.output_text}
    \cup UNION { {b.output.items[i].content.items[j].text :
                    j \in DOMAIN b.output.items[i].content.items} : i \in DOMAIN b.output.items }
    \cup UNION { ContentTexts(b.choices.items[i].message)
                   \cup ContentTexts(b.choices.items[i].delta)
                   \cup {b.choices.items[i].text} : i \in DOMAIN b.choices.items }

\* the body has one of the two containers of an OpenAI answer
StructurallyValid(b) == b.output.present \/ b.choices.present

InvalidStructure(providerName) == "Invalid response structure from " \o providerName \o " API"

\* the container the path's normalizer expects is not in the body
ContainerAbsent(path, b) ==
  CASE path = "openai" -> ~b.output.present /\ ~b.choices.present
    [] path = "groq" -> ~b.choices.present \/ Len(b.choices.items) = 0
    [] path = "gemini" -> ~b.candidates.present \/ Len(b.candidates.items) = 0

ProviderName(path) ==
  CASE path = "openai" -> "OpenAI" [] path = "groq" -> "Groq" [] path = "gemini" -> "Gemini"

\* C13 (as claimed): on the OpenAI, Groq and Gemini paths a 2xx answer without the
\* expected container fails the call with an invalid-response-structure error and
\* never returns text
C13_AbsentContainerFails ==
  [][\A c \in CallIds : \A path \in CloudPaths :
       AnsweredOk(c, path) /\ ContainerAbsent(path, lastEvent'.body)
       => /\ lastEvent'.outcome = "rejected"
          /\ lastEvent'.value = InvalidStructure(ProviderName(path))]_vars

TokenLimitMessage ==
  "Gemini reached token limit before generating response. Try a shorter input or increase max tokens."

EmptyResponseMessage == "Gemini returned empty response"

\* the first candidate of a Gemini body has no text in its first part
NoTextPart(b) ==
  /\ b.candidates.present
  /\ Len(b.candidates.items) > 0
  /\ (b.candidates.items[1].text = Null \/ b.candidates.items[1].text = "")

\* C14: on the Gemini path a 2xx answer whose first candidate has no text part fails
\* the call, with the token-limit message exactly when finishReason is MAX_TOKENS and
\* with the empty-response message otherwise; the two differ and the input is not echoed
C14_GeminiEmptyErrors ==
  [][\A c \in CallIds :
       AnsweredOk(c, "gemini") /\ NoTextPart(lastEvent'.body)
       => LET e == lastEvent'
              limit == e.body.candidates.items[1].finishReason = "MAX_TOKENS"
          IN /\ e.outcome = "rejected"
             /\ e.value \in {TokenLimitMessage, EmptyResponseMessage}
             /\ (e.value = TokenLimitMessage) <=> limit
             /\ TokenLimitMessage # EmptyResponseMessage
             /\ e.value # InputText]_vars

\* a Gemini call failed with the token-limit message
C14_Witness ==
  /\ lastEvent.op = "fetch"
  /\ lastEvent.path = "gemini"
  /\ lastEvent.outcome = "rejected"
  /\ lastEvent.value = TokenLimitMessage
  /\ NoTextPart(lastEvent.body)

\* first entry of a sequence of part texts that is a non-blank string, trimmed
RECURSIVE FirstNonBlank(_)
FirstNonBlank(ts) ==
  IF Len(ts) = 0 THEN ""
  ELSE IF ~BlankText(Head(ts)) THEN Trim(Head(ts))
  ELSE FirstNonBlank(Tail(ts))

\* the probing order of chat-completions normalization: message content as a string,
\* message content as an array of text parts, then the legacy text field
ProbedText(choice) ==
  IF choice.message.kind = "string" /\ ~BlankText(choice.message.str)
  THEN Trim(choice.message.str)
  ELSE IF choice.message.kind = "array" /\ FirstNonBlank(choice.message.parts) # ""
  THEN FirstNonBlank(choice.message.parts)
  ELSE IF ~BlankText(choice.text) THEN Trim(choice.text)
  ELSE ""

\* a chat-completions body whose first choice holds a text in one of the three places
ChatBodyWithText(b) ==
  /\ ~b.output.present
  /\ b.output_text = Null
  /\ b.choices.present
  /\ Len(b.choices.items) > 0
  /\ ProbedText(b.choices.items[1]) # ""

\* C15 (as claimed): on the OpenAI chat dialect and on the Groq path the normalizer
\* probes string content, then array-of-parts content, then the legacy text field,
\* and returns the first non-blank value; array content yields its text, not an error
C15_ChatProbeOrder ==
  [][\A c \in CallIds : \A path \in {"openai", "groq"} :
       AnsweredOk(c, path) /\ ChatBodyWithText(lastEvent'.body)
       => /\ lastEvent'.outcome = "resolved"
          /\ lastEvent'.value = ProbedText(lastEvent'.body.choices.items[1])]_vars

\* the same, on the OpenAI path alone
C15_OpenAIProbeOrder ==
  [][\A c \in CallIds :
       AnsweredOk(c, "openai") /\ ChatBodyWithText(lastEvent'.body)
       => /\ lastEvent'.outcome = "resolved"
          /\ lastEvent'.value = ProbedText(lastEvent'.body.choices.items[1])]_vars

\* ------------------------------------------------------------ provider resolution
\* getModelProvider(modelId, preferredProvider, {allowLocalFallback}) called on its own
ResolveProvider(c, modelId, preferred, allow) ==
  /\ UNCHANGED << bridgeVars, studioVars, fellBack >>
  /\ calls[c].pc = "idle"
  /\ lastEvent' = Answered(Event("provider", c, "-", "-", "resolved",
                                 getModelProvider(modelId, preferred, allow)),
                           [modelId |-> modelId, preferred |-> preferred, allow |-> allow])
  /\ UNCHANGED << isProcessing, apiKeyCache, openAiEndpointPreference, settings, lsEndpointPref,
                  calls >>

\* SpecProvider: getModelProvider applied to model ids of every row of its decision
\* table with the stored provider setting as the override, and processText routed
\* under the same setting
ProviderModels ==
  (DOMAIN RegisteredModels)
    \cup { "claude-3-haiku", "claude-gemini-mix", "gemini-pro", "gemini-gemma-mix", "gemma-7b",
           "gemma2-9b-it", "gpt-4o", "gpt-5", "gpt-4-gpt-oss", "openai/gpt-oss-gpt-5", "openai/gpt-oss-120b",
           "gpt-oss-120b", "gpt-oss-20b-mxfp4", "llama-3.3-70b", "llama-2-7b", "mixtral-8x7b",
           "mistral-7b", "qwen3-4b", "o3-mini" }

ProviderOverrides ==
  { Null, "", "  ", "auto", " AUTO ", "custom", " Custom", "groq", " Groq ", "anthropic", "gemini",
    "local", "openai", "mystery" }

InitProvider ==
  /\ isProcessing = FALSE
  /\ apiKeyCache = EmptyMap
  /\ openAiEndpointPreference = EmptyMap
  /\ lsProvider \in ProviderOverrides
  /\ lsBaseUrl = Null
  /\ lsCustomKey = Null
  /\ lsEndpointPref = StoredAbsent
  /\ calls = [c \in CallIds |-> IdleCall]
  /\ lastEvent = NoEvent
  /\ fellBack = {}
  /\ BridgeIdle
  /\ StudioIdle

ProviderCallers == {1}

NextProvider ==
  \/ \E c \in ProviderCallers, m \in ProviderModels, a \in BOOLEAN :
       ResolveProvider(c, m, lsProvider, a)
  \/ \E c \in ProviderCallers, m \in ProviderModels : StartCall(c, m)
  \/ \E c \in ProviderCallers : KeySettles(c, Null)
  \/ \E c \in ProviderCallers : FetchNetworkError(c)
  \/ \E c \in ProviderCallers : RetryFires(c)
  \/ \E c \in ProviderCallers : IpcSettles(c, TRUE)

SpecProvider == InitProvider /\ [][NextProvider]_vars

\* the step applies getModelProvider; its arguments are lastEvent'.body
ResolvesProvider == lastEvent'.op = "provider"

\* the step routes a processText call of a non-blank model
RoutesCall == lastEvent'.op = "start" /\ lastEvent'.value # "No reasoning model selected"

\* the provider a routed call went to: the handler's path, or the name in the error
RoutedTo(e) ==
  IF e.path # "-" THEN e.path
  ELSE SubSeq(e.value, Len("Unsupported reasoning provider: ") + 1, Len(e.value))

\* an override as the code compares it
NormalizedOverride(p) == IF p = Null THEN "" ELSE ToLowerCase(Trim(p))

CustomToOpenAI(p) == IF p = "custom" THEN "openai" ELSE p

\* C16 (as claimed): an override that is non-empty and not 'auto' is returned as it is
\* ('custom' as 'openai') by getModelProvider and by the selection in processText
C16_OverrideReturned ==
  [][/\ ResolvesProvider
        => LET p == lastEvent'.body.preferred
           IN p # Null /\ p # "" /\ p # "auto" => lastEvent'.value = CustomToOpenAI(p)
     /\ RoutesCall
        => (lsProvider # Null /\ lsProvider # "" /\ lsProvider # "auto"
              => RoutedTo(lastEvent') = CustomToOpenAI(lsProvider))]_vars

\* C16 (amended): an override whose trimmed, lower-cased form is non-empty and not
\* 'auto' is returned in that form ('custom' as 'openai') whatever the model id, the
\* registry and allowLocalFallback say
C16_NormalizedOverrideReturned ==
  [][/\ ResolvesProvider
        => LET n == NormalizedOverride(lastEvent'.body.preferred)
           IN n # "" /\ n # "auto" => lastEvent'.value = CustomToOpenAI(n)
     /\ RoutesCall
        => LET n == NormalizedOverride(lsProvider)
           IN n # "" /\ n # "auto" => RoutedTo(lastEvent') = CustomToOpenAI(n)]_vars

\* an override won over a registered model of another provider
C16_Witness ==
  /\ lastEvent.op = "provider"
  /\ lastEvent.body.modelId = "claude-sonnet-4"
  /\ lastEvent.body.preferred = " Groq "
  /\ lastEvent.value = "groq"

\* no explicit override: not passed, blank, or 'auto'
NoOverride(p) == NormalizedOverride(p) \in {"", "auto"}

Registered(m) == m \in DOMAIN RegisteredModels

\* C17 (as claimed): with no override every id with 'gemini' and without 'gemma'
\* resolves to gemini, and every unregistered id with 'gemma' and without 'gemini'
\* resolves to something else
C17_GeminiNotGemma ==
  [][ResolvesProvider /\ NoOverride(lastEvent'.body.preferred)
       => LET m == lastEvent'.body.modelId
          IN /\ Includes(m, "gemini") /\ ~Includes(m, "gemma") => lastEvent'.value = "gemini"
             /\ Includes(m, "gemma") /\ ~Includes(m, "gemini") /\ ~Registered(m)
                  => lastEvent'.value # "gemini"]_vars

\* C17 (amended): with no override an unregistered id with 'gemini' and with neither
\* 'gemma' nor 'claude' resolves to gemini, a registered id to its registered provider,
\* and an unregistered id with 'gemma' and without 'gemini' to something else
C17_GeminiAfterRegistryAndClaude ==
  [][ResolvesProvider /\ NoOverride(lastEvent'.body.preferred)
       => LET m == lastEvent'.body.modelId
          IN /\ Includes(m, "gemini") /\ ~Includes(m, "gemma") /\ ~Includes(m, "claude")
                  /\ ~Registered(m)
                  => lastEvent'.value = "gemini"
             /\ Registered(m) => lastEvent'.value = RegisteredModels[m]
             /\ Includes(m, "gemma") /\ ~Includes(m, "gemini") /\ ~Registered(m)
                  => lastEvent'.value # "gemini"]_vars

\* an unregistered gemini id was resolved by the name rule
C17_Witness ==
  /\ lastEvent.op = "provider"
  /\ lastEvent.body.modelId = "gemini-pro"
  /\ NoOverride(lastEvent.body.preferred)
  /\ lastEvent.value = "gemini"

\* the Groq-hosted name patterns
GroqPattern(m) ==
  \E t \in {"qwen/", "openai/", "llama-3.1-8b-instant", "llama-3.3-", "mixtral-", "gemma2-"} :
    Includes(m, t)

\* the ordered decision table, first match wins; localPatterns = the names of rule (d)
DecisionTable(m, p, allow, localPatterns) ==
  LET n == NormalizedOverride(p)
  IN CASE n # "" /\ n # "auto" -> CustomToOpenAI(n)
       [] OTHER ->
          CASE Registered(m) -> RegisteredModels[m]
            [] OTHER ->
               CASE Includes(m, "claude") -> "anthropic"
                 [] OTHER ->
                    CASE Includes(m, "gemini") /\ ~Includes(m, "gemma") -> "gemini"
                      [] OTHER ->
                         CASE (Includes(m, "gpt-4") \/ Includes(m, "gpt-5"))
                                /\ ~Includes(m, "gpt-oss") -> "openai"
                           [] OTHER ->
                              CASE GroqPattern(m) -> "groq"
                                [] OTHER ->
                                   IF allow /\ \E t \in localPatterns : Includes(m, t)
                                   THEN "local" ELSE "openai"

\* C18 (as claimed): getModelProvider is the decision table whose rule (d) sends ids
\* containing qwen, llama, mistral or gpt-oss to local
C18_DecisionTable ==
  [][ResolvesProvider
       => lastEvent'.value =
            DecisionTable(lastEvent'.body.modelId, lastEvent'.body.preferred,
                          lastEvent'.body.allow, {"qwen", "llama", "mistral", "gpt-oss"})]_vars

\* C18 (amended): getModelProvider is the decision table whose rule (d) sends ids
\* containing qwen, llama, mistral or gpt-oss-20b-mxfp4 to local
C18_DecisionTableOfTheCode ==
  [][ResolvesProvider
       => lastEvent'.value =
            DecisionTable(lastEvent'.body.modelId, lastEvent'.body.preferred,
                          lastEvent'.body.allow,
                          {"qwen", "llama", "mistral", "gpt-oss-20b-mxfp4"})]_vars

\* an id with both 'gpt-5' and 'gpt-oss' fell through the openai rule to the Groq rule
C18_Witness ==
  /\ lastEvent.op = "provider"
  /\ lastEvent.body.modelId = "openai/gpt-oss-gpt-5"
  /\ NoOverride(lastEvent.body.preferred)
  /\ lastEvent.value = "groq"

ProviderIds == {"openai", "anthropic", "gemini", "groq", "local", "custom"}

\* C19 (as claimed): for every model id, override and allowLocalFallback the provider
\* returned is one of {openai, anthropic, gemini, groq, local, custom}
C19_ClosedProviderSet ==
  [][ResolvesProvider => lastEvent'.value \in ProviderIds]_vars

\* C19 (amended): the provider returned is one of {openai, anthropic, gemini, groq,
\* local} unless the override, trimmed and lower-cased, is a name outside the closed
\* set, which is returned as it is; 'custom' is never returned
C19_ClosedUnlessForeignOverride ==
  [][ResolvesProvider
       => LET n == NormalizedOverride(lastEvent'.body.preferred)
          IN /\ lastEvent'.value # "custom"
             /\ IF n \in ProviderIds \cup {"", "auto"}
                THEN lastEvent'.value \in ProviderIds
                ELSE lastEvent'.value = n]_vars

\* the override 'custom' was resolved to openai
C19_Witness ==
  /\ lastEvent.op = "provider"
  /\ NormalizedOverride(lastEvent.body.preferred) = "custom"
  /\ lastEvent.value = "openai"


\* ------------------------------------------------------------ custom base URL
\* getConfiguredOpenAIBase as the dispatcher runs it: storage is "missing" when there is
\* no window or no window.localStorage, "throws" when reading it raises inside the try
\* block, "ok" otherwise
ConfiguredBase(storage, provider, stored) ==
  IF storage = "missing" THEN OPENAI_BASE
  ELSE IF storage = "throws" THEN OPENAI_BASE
  ELSE getConfiguredOpenAIBase(provider, stored)

StorageStates == {"ok", "missing", "throws"}

\* getConfiguredOpenAIBase() called on its own under the stored settings
ResolveBase(c, storage) ==
  /\ UNCHANGED << bridgeVars, studioVars, fellBack >>
  /\ calls[c].pc = "idle"
  /\ lastEvent' = Answered(Event("base", c, "-", "-", "resolved",
                                 ConfiguredBase(storage, lsProvider, lsBaseUrl)),
                           [storage |-> storage, provider |-> lsProvider, stored |-> lsBaseUrl])
  /\ UNCHANGED << isProcessing, apiKeyCache, openAiEndpointPreference, settings, lsEndpointPref,
                  calls >>

\* SpecBase: the settings UI writes the provider and the custom base URL, and the
\* dispatcher resolves its OpenAI base under them
BaseProviders == {Null, "", "custom", "Custom", "openai", "groq"}

BaseUrls ==
  { Null, "", "  ", CustomBase, " https://llm.example.com/v1/ ", "http://llm.example.com/v1",
    "http://localhost:11434/v1", "https://api.anthropic.com/v1", " https://api.anthropic.com/v1/ ",
    "https://api.groq.com:443/openai/v1", GEMINI_BASE, "https://proxy.example.com/api.groq.com/v1",
    "http://api.groq.com.local/v1", OPENAI_BASE, "/" }

InitBase ==
  /\ isProcessing = FALSE
  /\ apiKeyCache = EmptyMap
  /\ openAiEndpointPreference = EmptyMap
  /\ lsProvider = Null
  /\ lsBaseUrl = Null
  /\ lsCustomKey = Null
  /\ lsEndpointPref = StoredAbsent
  /\ calls = [c \in CallIds |-> IdleCall]
  /\ lastEvent = NoEvent
  /\ fellBack = {}
  /\ BridgeIdle
  /\ StudioIdle

BaseCallers == {1}

NextBase ==
  \/ \E v \in BaseProviders : SetProvider(v)
  \/ \E v \in BaseUrls : SetBaseUrl(v)
  \/ \E c \in BaseCallers, s \in StorageStates : ResolveBase(c, s)

SpecBase == InitBase /\ [][NextBase]_vars

\* the step applies getConfiguredOpenAIBase; the settings it read are lastEvent'.body
ResolvesBase == lastEvent'.op = "base"

\* the stored URL is absent or only white space
StoredBlank(stored) == stored = Null \/ Trim(stored) = ""

\* the host of a URL: what stands between "://" and the next "/", ":", "?" or "#"
AfterScheme(url) ==
  LET at == { i \in 1..(Len(url) - 2) : SubSeq(url, i, i + 2) = "://" }
  IN IF at = {} THEN url
     ELSE LET i == CHOOSE j \in at : \A k \in at : j <= k
          IN SubSeq(url, i + 3, Len(url))

Host(url) ==
  LET rest == AfterScheme(url)
      ends == { i \in 1..Len(rest) : SubSeq(rest, i, i) \in {"/", ":", "?", "#"} }
  IN IF ends = {} THEN rest
     ELSE LET i == CHOOSE j \in ends : \A k \in ends : j <= k
          IN SubSeq(rest, 1, i - 1)

\* the four conditions under which the custom base may be returned
CustomBaseAllowed(b) ==
  /\ b.storage = "ok"
  /\ b.provider = "custom"
  /\ ~StoredBlank(b.stored)
  /\ Host(normalizeBaseUrl(b.stored)) \notin knownNonOpenAIUrls
  /\ isSecureEndpoint(normalizeBaseUrl(b.stored))

MathMax(a, b) == IF a >= b THEN a ELSE b

MathMin(a, b) == IF a <= b THEN a ELSE b

\* a budget that is not clamped
calculateMaxTokensUnclamped(textLength, minTokens, maxTokens, multiplier) ==
  textLength * multiplier

\* LocalReasoningService.calculateMaxTokens
calculateMaxTokens(textLength, minTokens, maxTokens, multiplier) ==
  MathMax(minTokens, MathMin(textLength * multiplier, maxTokens))

\* calculateMaxTokens called on its own; the arguments and the result are the body
\* of the event
ComputeMaxTokens(c, textLength, minTokens, maxTokens, multiplier) ==
  /\ UNCHANGED << dispatcherVars, studioVars >>
  /\ localCalls[c].pc = "idle"
  /\ localEvent' =
       Answered(Event("tokens", c, "local", "-", "resolved", ""),
                [textLength |-> textLength, minTokens |-> minTokens, maxTokens |-> maxTokens,
                 multiplier |-> multiplier,
                 result |-> calculateMaxTokens(textLength, minTokens, maxTokens, multiplier)])
  /\ UNCHANGED << bridgeSource, envProvider, localIsProcessing, localCalls >>

\* SpecTokens: calculateMaxTokens over text lengths around both bounds, with the
\* default bounds (100, 2048, 2) and others, ordered and not
TextLengths == {0, 1, 10, 49, 50, 51, 500, 1023, 1024, 1025, 2000, 4000}

MinTokenSettings == {0, 100, 2048, 3000}

MaxTokenSettings == {100, 2048}

MultiplierSettings == {0, 1, 2, 3}

InitTokens ==
  /\ isProcessing = FALSE
  /\ apiKeyCache = EmptyMap
  /\ openAiEndpointPreference = EmptyMap
  /\ lsProvider = Null
  /\ lsBaseUrl = Null
  /\ lsCustomKey = Null
  /\ lsEndpointPref = StoredAbsent
  /\ calls = [c \in CallIds |-> IdleCall]
  /\ lastEvent = NoEvent
  /\ fellBack = {}
  /\ BridgeIdle
  /\ StudioIdle

TokenCallers == {1}

NextTokens ==
  \E c \in TokenCallers, n \in TextLengths, lo \in MinTokenSettings, hi \in MaxTokenSettings,
     k \in MultiplierSettings : ComputeMaxTokens(c, n, lo, hi, k)

SpecTokens == InitTokens /\ [][NextTokens]_vars

\* clamp(x, lo, hi) for lo <= hi
Clamp(x, lo, hi) == IF x < lo THEN lo ELSE IF x > hi THEN hi ELSE x

\* the examples of the default bounds
TokenExamples(b) ==
  b.minTokens = 100 /\ b.maxTokens = 2048 /\ b.multiplier = 2
  => /\ b.textLength = 10 => b.result = 100
     /\ b.textLength = 2000 => b.result = 2048
     /\ b.textLength = 500 => b.result = 1000

\* C21 as claimed: for all text lengths and all bounds the result is the clamp of
\* textLength * multiplier, lies in [min, max] and equals textLength * multiplier when
\* that lies inside the bounds, and the three examples hold
C21_ClampForAllBounds ==
  localEvent.op = "tokens"
  => LET b == localEvent.body
         x == b.textLength * b.multiplier
     IN /\ b.result >= b.minTokens /\ b.result <= b.maxTokens
        /\ (x >= b.minTokens /\ x <= b.maxTokens) => b.result = x
        /\ TokenExamples(b)

\* C21: for ordered bounds (min <= max) the result is clamp(textLength * multiplier,
\* min, max): it lies in [min, max] and equals textLength * multiplier when that lies
\* inside the bounds; the three examples hold; for min > max the result is min
C21_ClampForOrderedBounds ==
  localEvent.op = "tokens"
  => LET b == localEvent.body
         x == b.textLength * b.multiplier
     IN /\ b.minTokens <= b.maxTokens
           => /\ b.result = Clamp(x, b.minTokens, b.maxTokens)
              /\ b.result >= b.minTokens /\ b.result <= b.maxTokens
              /\ (x >= b.minTokens /\ x <= b.maxTokens) => b.result = x
        /\ b.minTokens > b.maxTokens => b.result = b.minTokens
        /\ TokenExamples(b)

\* the default bounds clamp 2000 characters down to 2048 tokens
C21_Witness ==
  /\ localEvent.op = "tokens"
  /\ localEvent.body.textLength = 2000
  /\ localEvent.body.minTokens = 100
  /\ localEvent.body.maxTokens = 2048
  /\ localEvent.body.multiplier = 2
  /\ localEvent.body.result = 2048


\* ------------------------------------------------------------ call stages
\* SpecStages: one cloud call at a time on the OpenAI, Gemini and Groq paths, with every
\* way each stage can end: key missing, request refused, not answered, answered with a
\* body the normalizer accepts or rejects; every await of the transport settles
StageModels == {"gpt-5-mini", "gemini-2.5-flash", "qwen/qwen3-32b"}

StageKeys == {Null, "sk-openai", "sk-gemini", "sk-groq", " sk-custom "}

StageBodies ==
  { ChatResponse(StringContent(" chat text ")), ChatResponse(StringContent("")), UnknownResponse,
    GeminiResponse(" gemini text ", "STOP"), GeminiResponse(Null, "MAX_TOKENS"),
    [candidates |-> NoArr] }

InitStages ==
  /\ isProcessing = FALSE
  /\ apiKeyCache = EmptyMap
  /\ openAiEndpointPreference = EmptyMap
  /\ lsProvider \in ProviderSettings
  /\ lsBaseUrl = CustomBase
  /\ lsCustomKey = Null
  /\ lsEndpointPref = StoredAbsent
  /\ calls = [c \in CallIds |-> IdleCall]
  /\ lastEvent = NoEvent
  /\ fellBack = {}
  /\ BridgeIdle
  /\ StudioIdle

StageCallers == {1}

\* an await of the transport of call c settles
StageTransportSettles(c) ==
  \/ \E b \in StageBodies, jsonOk \in BOOLEAN : FetchOk(c, "200", b, jsonOk, TRUE)
  \/ \E st \in ErrorStatuses, eb \in ErrorBodies : FetchError(c, st, eb, TRUE)
  \/ FetchNetworkError(c)
  \/ RetryFires(c)

NextStages ==
  \/ \E c \in StageCallers, m \in StageModels : StartCall(c, m)
  \/ \E c \in StageCallers, k \in StageKeys : KeySettles(c, k)
  \/ \E c \in StageCallers : StageTransportSettles(c)

SpecStages ==
  InitStages /\ [][NextStages]_vars /\ \A c \in StageCallers : WF_vars(StageTransportSettles(c))

\* the stage a call rests in between two steps; BuildingRequest and NormalizingResponse
\* are passed inside the step that leaves ResolvingCredential with a key and inside the
\* step that receives a 2xx JSON body
Stage(call) ==
  CASE call.pc = "idle" -> "Idle"
    [] call.pc = "awaitKey" -> "ResolvingCredential"
    [] call.pc \in {"awaitFetch", "backoff"} -> "AwaitingTransport"
    [] OTHER -> "AwaitingIpc"

\* the messages of the errors the normalizers throw
NormalizerErrors ==
  { InvalidStructure("Groq"), InvalidStructure("Gemini"), "Groq returned empty response",
    EmptyResponseMessage, TokenLimitMessage, "choice.message.content.trim is not a function" }

\* the step of a cloud call c follows the stage order
StageStep(c) ==
  LET e == lastEvent'
      before == Stage(calls[c])
      after == Stage(calls'[c])
      ended == e.outcome \in {"resolved", "rejected"}
  IN /\ ended <=> after = "Idle"
     /\ CASE e.op = "start" ->
               /\ before = "Idle"
               /\ e.outcome \in {"pending", "rejected"}
               /\ e.outcome = "pending" => after = "ResolvingCredential"
          [] e.op = "key" ->
               /\ before = "ResolvingCredential"
               /\ e.outcome \in {"pending", "rejected"}
               /\ e.outcome = "pending"
                    => /\ after = "AwaitingTransport"
                       /\ e.value # Null /\ calls'[c].apiKey = e.value
                       /\ calls'[c].pc = "awaitFetch" /\ calls'[c].idx = 1
                       /\ Len(calls'[c].cands) >= 1
          [] e.op \in {"fetch", "retry"} ->
               /\ before = "AwaitingTransport"
               /\ ~ended => after = "AwaitingTransport"
               /\ e.outcome = "resolved"
                    => /\ e.op = "fetch" /\ calls[c].pc = "awaitFetch"
                       /\ e.status \in OkStatuses /\ e.body \in BodiesFor(e.path)
                       /\ Normalize(e.path, e.body) = [ok |-> TRUE, value |-> e.value]
               /\ (e.outcome = "rejected" /\ e.value \in NormalizerErrors)
                    => /\ e.status \in OkStatuses /\ e.body \in BodiesFor(e.path)
                       /\ Normalize(e.path, e.body) = [ok |-> FALSE, value |-> e.value]
          [] OTHER -> FALSE

RoutingModels == {"", "  ", "gpt-5-mini", " gpt-5-mini ", "claude-sonnet-4"}

RoutingProviders == {Null, "mystery"}

RoutingKeys == {Null, "sk-openai"}

RoutingBodies == {ChatResponse(StringContent(" chat text ")), UnknownResponse}

InitRouting ==
  /\ isProcessing = FALSE
  /\ apiKeyCache = EmptyMap
  /\ openAiEndpointPreference = EmptyMap
  /\ lsProvider = Null
  /\ lsBaseUrl = Null
  /\ lsCustomKey = Null
  /\ lsEndpointPref = StoredAbsent
  /\ calls = [c \in CallIds |-> IdleCall]
  /\ lastEvent = NoEvent
  /\ fellBack = {}
  /\ BridgeIdle
  /\ StudioIdle

NextRouting ==
  \/ \E c \in CallIds, m \in RoutingModels : StartCall(c, m)
  \/ \E c \in CallIds, k \in RoutingKeys : KeySettles(c, k)
  \/ \E c \in CallIds, b \in RoutingBodies : FetchOk(c, "200", b, TRUE, TRUE)
  \/ \E c \in CallIds : FetchError(c, "500", "json", TRUE)
  \/ \E c \in CallIds : FetchNetworkError(c)
  \/ \E c \in CallIds : RetryFires(c)
  \/ \E c \in CallIds, ok \in BOOLEAN : IpcSettles(c, ok)
  \/ \E v \in RoutingProviders : SetProvider(v)

SpecRouting == InitRouting /\ [][NextRouting]_vars

\* the step neither looks a credential up nor sends a request, and leaves the in-flight
\* flag, the key cache and the dialect preferences as they were
NothingTouched ==
  /\ calls' = calls
  /\ isProcessing' = isProcessing
  /\ apiKeyCache' = apiKeyCache
  /\ openAiEndpointPreference' = openAiEndpointPreference
  /\ lsEndpointPref' = lsEndpointPref

\* the call ends in this step with an error of the given message
FailsWith(e, msg) == e.outcome = "rejected" /\ e.value = msg

UnsupportedMessage(provider) == "Unsupported reasoning provider: " \o provider

\* processText itself refuses the call: blank model id, or no handler for the provider
RefusalsOfProcessText(c) ==
  StartsCall(c)
  => LET e == lastEvent'
         trimmed == Trim(e.body.model)
         provider == RoutedProvider(lsProvider, trimmed)
     IN /\ trimmed = "" => FailsWith(e, "No reasoning model selected") /\ NothingTouched
        /\ (trimmed # "" /\ provider \notin ProviderIds)
             => FailsWith(e, UnsupportedMessage(provider)) /\ NothingTouched

\* a handler's credential or transport stage fails: the error reaches the caller
HandlerFailures(c) ==
  LET e == lastEvent'
  IN /\ (KeyStep(c) /\ calls[c].keyProvider # "custom"
           /\ e.body.cached \in {Null, ""} /\ e.body.ipc \in {IpcThrow, Null, ""})
          => FailsWith(e, KeyMissingMessage(calls[c].keyProvider)) /\ calls'[c].pc = "idle"
     /\ (FetchStep(c) /\ e.status \in FailureStatuses)
          => /\ e.outcome # "resolved"
             /\ calls'[c].pc = "idle" => FailsWith(e, FailureMessage(e))
     /\ (e.op = "ipc" /\ e.call = c /\ e.outcome # "resolved") => FailsWith(e, "ipc error")
     /\ (e.call = c /\ e.outcome = "rejected") => e.value # ""

\* a 2xx answer without the container the path's normalizer expects
ShapeFailures(c) ==
  \A path \in CloudPaths :
    AnsweredOk(c, path) /\ ContainerAbsent(path, lastEvent'.body)
    => FailsWith(lastEvent', InvalidStructure(ProviderName(path)))

\* C23 (as claimed): processText fails with a descriptive error and returns no string on
\* every stage failure: a blank model id fails with 'No reasoning model selected' and a
\* provider without a handler with 'Unsupported reasoning provider: <id>', both touching
\* nothing; a missing key, an exhausted transport, a failed IPC call and a response of
\* invalid shape each end the call with the handler's error
C23_FailsOnEveryStageFailure ==
  [][\A c \in CallIds : RefusalsOfProcessText(c) /\ HandlerFailures(c) /\ ShapeFailures(c)]_vars

\* the same without the responses of invalid shape
C23_RefusalsAndHandlerErrors ==
  [][\A c \in CallIds : RefusalsOfProcessText(c) /\ HandlerFailures(c)]_vars

\* a call was refused for its provider while another call was in flight
C23_UnsupportedRefused ==
  /\ lastEvent.op = "start"
  /\ lastEvent.value = UnsupportedMessage("mystery")
  /\ isProcessing


\* ------------------------------------------------------------ swallowed storage failures
\* the answer of this step makes processWithOpenAI call rememberOpenAiPreference
Remembers(c) ==
  /\ FetchStep(c)
  /\ calls[c].path = "openai"
  /\ \/ lastEvent'.status \in OkStatuses
     \/ lastEvent'.status \in UnsupportedStatuses /\ Current(calls[c]).type = "responses"

\* the dialect it is called with
RememberedDialect(c) ==
  IF lastEvent'.status \in OkStatuses THEN Current(calls[c]).type ELSE "chat"

\* what the call does after rememberOpenAiPreference returned, told without the store
ContinuesAfterRemember(c) ==
  LET call == calls[c]
      e == lastEvent'
  IN IF e.status \in OkStatuses /\ e.body # NotJson
     THEN /\ e.outcome = "resolved"
          /\ e.value = NormalizeOpenAI(e.body, InputText).value
          /\ calls'[c] = IdleCall
     ELSE IF e.status \notin OkStatuses /\ call.idx < Len(call.cands)
     THEN /\ e.outcome = "next"
          /\ calls'[c].pc = "awaitFetch"
          /\ calls'[c].cands = call.cands
          /\ calls'[c].idx = call.idx + 1
     ELSE /\ e.outcome = (IF call.attempt < MaxAttempts THEN "backoff" ELSE "rejected")
          /\ e.outcome = "backoff" => calls'[c].cands = call.cands

\* C24: whenever processWithOpenAI remembers a dialect, whatever the store holds
\* (nothing, an object, a non-object, text that does not parse) and whether or not the
\* write succeeds, the in-memory preference of the base becomes that dialect, the store
\* is either left as it was or gets the entry, and the call goes on to the same next
\* candidate or the same result
C24_RememberFailureSwallowed ==
  [][\A c \in CallIds :
       Remembers(c)
       => LET base == calls[c].base
              dialect == RememberedDialect(c)
          IN /\ Get(openAiEndpointPreference', base) = dialect
             /\ \A b \in DOMAIN openAiEndpointPreference \ {base} :
                  Get(openAiEndpointPreference', b) = openAiEndpointPreference[b]
             /\ lsEndpointPref' \in
                  {lsEndpointPref, StoreAfterRemember(lsEndpointPref, base, dialect, TRUE)}
             /\ ContinuesAfterRemember(c)]_vars

\* a call returned its text although the dialect it remembered did not reach the store
C24_Witness ==
  /\ lastEvent.op = "fetch"
  /\ lastEvent.outcome = "resolved"
  /\ lastEvent.path = "openai"
  /\ \E b \in DOMAIN openAiEndpointPreference :
       StoredEntry(lsEndpointPref, b) # openAiEndpointPreference[b]


\* ------------------------------------------------------------ the in-flight flags
\* SpecFlags: concurrent callers of the dispatcher's cloud and IPC paths and of the local
\* bridge, with every way a call can end: text returned, key missing, transport given up
\* after its retries, response invalid or empty, model not downloaded, rejected as busy
FlagModels == {"gpt-5-mini", "gemini-2.5-flash", "claude-sonnet-4"}

FlagKeys == {Null, "sk-openai", "sk-gemini"}

FlagBodies ==
  { ChatResponse(StringContent(" chat text ")), GeminiResponse(" gemini text ", "STOP"),
    GeminiResponse(Null, "STOP"), [candidates |-> NoArr] }

FlagLocalModels == {"qwen2.5-7b"}

InitFlags ==
  /\ isProcessing = FALSE
  /\ apiKeyCache = EmptyMap
  /\ openAiEndpointPreference = EmptyMap
  /\ lsProvider = Null
  /\ lsBaseUrl = Null
  /\ lsCustomKey = Null
  /\ lsEndpointPref = StoredAbsent
  /\ calls = [c \in CallIds |-> IdleCall]
  /\ lastEvent = NoEvent
  /\ fellBack = {}
  /\ bridgeSource \in {"services", "part_001"}
  /\ envProvider = Null
  /\ localIsProcessing = FALSE
  /\ localCalls = [c \in CallIds |-> LocalIdleCall]
  /\ localEvent = NoEvent
  /\ StudioIdle

NextFlags ==
  \/ \E c \in CallIds, m \in FlagModels : StartCall(c, m)
  \/ \E c \in CallIds, k \in FlagKeys : KeySettles(c, k)
  \/ \E c \in CallIds, b \in FlagBodies : FetchOk(c, "200", b, TRUE, TRUE)
  \/ \E c \in CallIds : FetchNetworkError(c)
  \/ \E c \in CallIds : RetryFires(c)
  \/ \E c \in CallIds, ok \in BOOLEAN : IpcSettles(c, ok)
  \/ \E c \in CallIds, m \in FlagLocalModels : LocalStart(c, m)
  \/ \E c \in CallIds, a \in {"downloaded", "missing"} : LocalModelsSettle(c, a)
  \/ \E c \in CallIds, ok \in BOOLEAN : LocalInferenceSettles(c, ok)

SpecFlags == InitFlags /\ [][NextFlags]_vars


\* no processText call of the dispatcher, or of the bridge, is pending
NothingPending == \A c \in CallIds : ~Pending(c)

NothingPendingLocally == \A c \in CallIds : ~LocalPending(c)

\* C25: whenever no processText call of the ReasoningService is pending its isProcessing
\* flag is false, and the same for the LocalReasoningService, however the earlier calls
\* ended; so a call started when nothing is pending is never rejected as busy
C25_FlagNeverStuck ==
  /\ [](NothingPending => ~isProcessing)
  /\ [](NothingPendingLocally => ~localIsProcessing)
  /\ [][\A c \in CallIds :
          /\ (StartsCall(c) /\ NothingPending) => ~RejectedBusy(lastEvent')
          /\ (LocalStartsCall(c) /\ NothingPendingLocally)
               => ~RejectedBusy(localEvent')]_vars

\* nothing is pending after a cloud call gave up on its transport and a local call found
\* its model missing or failed, and both flags are down
C25_Witness ==
  /\ NothingPending /\ NothingPendingLocally
  /\ lastEvent.op = "fetch" /\ lastEvent.outcome = "rejected" /\ lastEvent.status = "neterr"
  /\ localEvent.outcome = "rejected" /\ localEvent.value # BusyMessage
  /\ ~isProcessing /\ ~localIsProcessing


\* ------------------------------------------------------------ PromptStudio
\* JSON.stringify of a prompt (a string without characters that need escaping)
JsonStringify(s) == "\"" \o s \o "\""

\* the text is the JSON of a string
IsJsonString(t) ==
  Len(t) >= 2 /\ SubSeq(t, 1, 1) = "\"" /\ SubSeq(t, Len(t), Len(t)) = "\""

\* JSON.parse of such a text
JsonParse(t) == SubSeq(t, 2, Len(t) - 1)

\* the mount effect: editedPrompt after loading the stored prompt
LoadedPrompt(stored) ==
  IF Truthy(stored) /\ IsJsonString(stored) THEN JsonParse(stored) ELSE UNIFIED_SYSTEM_PROMPT

\* testPrompt: the provider the test is routed by
TestProvider(reasoningModel, storedProvider) ==
  IF Truthy(reasoningModel)
  THEN getModelProvider(reasoningModel, OrElse(storedProvider, ""), FALSE)
  ELSE "openai"

\* PROVIDER_CONFIG[provider].baseStorageKey is set
HasBaseStorageKey(provider) == provider = "custom"

\* a test that leaves the key as the run wrote it
KeptAfterTest(currentCustomPrompt, stored) == stored

\* testPrompt, the inner finally block: the key after the run
RestoredAfterTest(currentCustomPrompt, stored) ==
  IF Truthy(currentCustomPrompt) THEN currentCustomPrompt ELSE Null

\* the edit tab's textarea: setEditedPrompt
EditPrompt(v) ==
  /\ UNCHANGED << dispatcherVars, bridgeVars >>
  /\ v # editedPrompt
  /\ editedPrompt' = v
  /\ studioEvent' = Event("edit", 0, "-", "-", "-", v)
  /\ UNCHANGED << customUnifiedPrompt, testResult, isLoading, testRun, savedPrompt >>

savePrompt ==
  /\ UNCHANGED << dispatcherVars, bridgeVars >>
  /\ customUnifiedPrompt' = JsonStringify(editedPrompt)
  /\ savedPrompt' = JsonStringify(editedPrompt)
  /\ studioEvent' = Event("save", 0, "-", "-", "-", editedPrompt)
  /\ UNCHANGED << editedPrompt, testResult, isLoading, testRun >>

resetToDefault ==
  /\ UNCHANGED << dispatcherVars, bridgeVars >>
  /\ editedPrompt' = UNIFIED_SYSTEM_PROMPT
  /\ customUnifiedPrompt' = Null
  /\ savedPrompt' = Null
  /\ studioEvent' = Event("reset", 0, "-", "-", "-", "")
  /\ UNCHANGED << testResult, isLoading, testRun >>

\* testPrompt up to its await (the Test button is disabled while isLoading);
\* useReasoningModel and reasoningModel are the settings it reads
testPrompt(testText, useReasoningModel, reasoningModel) ==
  /\ UNCHANGED << dispatcherVars, bridgeVars >>
  /\ testRun.pc = "idle"
  /\ ~isLoading
  /\ LET provider == TestProvider(reasoningModel, lsProvider)
         read == [testText |-> testText, useReasoningModel |-> useReasoningModel,
                  reasoningModel |-> reasoningModel, before |-> customUnifiedPrompt]
         returns(msg) ==
           /\ testResult' = msg
           /\ studioEvent' = Answered(Event("test", 0, provider, "-", "returned", msg), read)
           /\ UNCHANGED << customUnifiedPrompt, isLoading, testRun >>
     IN IF Trim(testText) = ""
        THEN /\ studioEvent' = Answered(Event("test", 0, "-", "-", "skipped", ""), read)
             /\ UNCHANGED << customUnifiedPrompt, testResult, isLoading, testRun >>
        ELSE IF ~useReasoningModel
        THEN returns("AI text enhancement is disabled. Enable it in AI Models to test prompts.")
        ELSE IF ~Truthy(reasoningModel)
        THEN returns("No reasoning model selected. Choose one in AI Models settings.")
        ELSE IF HasBaseStorageKey(provider) /\ Trim(OrElse(lsBaseUrl, "")) = ""
        THEN returns("Custom endpoint base URL missing. Add it in AI Models settings.")
        ELSE /\ testRun' = [pc |-> "awaitReasoning", currentCustomPrompt |-> customUnifiedPrompt,
                            provider |-> provider]
             /\ customUnifiedPrompt' = JsonStringify(editedPrompt)
             /\ isLoading' = TRUE
             /\ testResult' = ""
             /\ studioEvent' = Answered(Event("test", 0, provider, "-", "pending", ""), read)
  /\ UNCHANGED << editedPrompt, savedPrompt >>

\* the reasoning call of the pending test settles: "result" (text, or success from the
\* local IPC call), "errorResult" (the local IPC call answers success = false), "throws"
testPromptSettles(outcome) ==
  /\ UNCHANGED << dispatcherVars, bridgeVars >>
  /\ testRun.pc = "awaitReasoning"
  /\ outcome \in {"result", "errorResult", "throws"}
  /\ outcome = "errorResult" => testRun.provider = "local"
  /\ customUnifiedPrompt' = RestoredAfterTest(testRun.currentCustomPrompt, customUnifiedPrompt)
  /\ testResult' = CASE outcome = "result" -> "cleaned text"
                     [] outcome = "errorResult" -> "Local model error: ipc error"
                     [] OTHER -> "Test failed: ipc error"
  /\ isLoading' = FALSE
  /\ testRun' = IdleTest
  /\ studioEvent' = Answered(Event("settle", 0, testRun.provider, "-", outcome, testResult'),
                             [before |-> testRun.currentCustomPrompt])
  /\ UNCHANGED << editedPrompt, savedPrompt >>

\* SpecStudio: PromptStudio mounted over every kind of stored prompt, the prompt edited,
\* saved and reset while a test is or is not pending, every outcome of the reasoning call
StoredPrompts == {Null, "", JsonStringify("saved prompt"), "{broken"}

EditedPrompts == {UNIFIED_SYSTEM_PROMPT, "edited prompt"}

TestTexts == {"", "  ", "um so like"}

TestModels == {"", "gpt-5-mini"}

TestProviders == {Null, "custom", "local"}

InitStudio ==
  /\ isProcessing = FALSE
  /\ apiKeyCache = EmptyMap
  /\ openAiEndpointPreference = EmptyMap
  /\ lsProvider \in TestProviders
  /\ lsBaseUrl = Null
  /\ lsCustomKey = Null
  /\ lsEndpointPref = StoredAbsent
  /\ calls = [c \in CallIds |-> IdleCall]
  /\ lastEvent = NoEvent
  /\ fellBack = {}
  /\ BridgeIdle
  /\ customUnifiedPrompt \in StoredPrompts
  /\ editedPrompt = LoadedPrompt(customUnifiedPrompt)
  /\ testResult = ""
  /\ isLoading = FALSE
  /\ testRun = IdleTest
  /\ savedPrompt = NoSave
  /\ studioEvent = NoEvent

NextStudio ==
  \/ \E v \in EditedPrompts : EditPrompt(v)
  \/ savePrompt
  \/ resetToDefault
  \/ \E t \in TestTexts, u \in BOOLEAN, m \in TestModels : testPrompt(t, u, m)
  \/ \E o \in {"result", "errorResult", "throws"} : testPromptSettles(o)

SpecStudio == InitStudio /\ [][NextStudio]_vars


\* the step is a testPrompt run that goes on to its reasoning call
TestStarts == studioEvent'.op = "test" /\ studioEvent'.outcome = "pending"

\* the step is a testPrompt run that returns before the reasoning call
TestReturnsEarly == studioEvent'.op = "test" /\ studioEvent'.outcome # "pending"

\* the step settles the pending test
TestSettles == studioEvent'.op = "settle"

TestPending == testRun.pc = "awaitReasoning"

\* C26 (as claimed): a test writes the edited prompt into the key, the key holds it as
\* long as the test is pending, and when the test settles the key holds exactly the
\* value it had before the run: absent, the empty string or any other string, whatever
\* the outcome; the early returns do not write the key
C26_KeyRestoredExactly ==
  [][/\ TestStarts => customUnifiedPrompt' = JsonStringify(editedPrompt)
     /\ (TestPending /\ TestPending') => customUnifiedPrompt' = customUnifiedPrompt
     /\ TestSettles => customUnifiedPrompt' = studioEvent'.body.before
     /\ TestReturnsEarly => customUnifiedPrompt' = customUnifiedPrompt]_vars

\* C26 (amended): a test writes the edited prompt into the key and remembers the value
\* the key had; while the test is pending only savePrompt and resetToDefault change the
\* key; when the test settles, whatever the outcome, the key holds the value it had
\* before the run if that was a non-empty string and is absent if the key was absent
\* or held the empty string; the early returns do not write the key
C26_KeyRestoredUnlessEmpty ==
  [][/\ TestStarts
          => /\ customUnifiedPrompt' = JsonStringify(editedPrompt)
             /\ testRun'.currentCustomPrompt = customUnifiedPrompt
             /\ studioEvent'.body.before = customUnifiedPrompt
     /\ (TestPending /\ TestPending' /\ customUnifiedPrompt' # customUnifiedPrompt)
          => studioEvent'.op \in {"save", "reset"}
     /\ TestSettles
          => /\ studioEvent'.body.before = testRun.currentCustomPrompt
             /\ customUnifiedPrompt' =
                  IF studioEvent'.body.before \in {Null, ""} THEN Null
                  ELSE studioEvent'.body.before
     /\ TestReturnsEarly => customUnifiedPrompt' = customUnifiedPrompt]_vars

\* a test that found the empty string in the key has settled with an error and left
\* the key absent
C26_Witness ==
  /\ studioEvent.op = "settle"
  /\ studioEvent.outcome = "throws"
  /\ studioEvent.body.before = ""
  /\ customUnifiedPrompt = Null

\* C27 (as claimed): once savePrompt or resetToDefault has run, whenever no test is
\* pending the key holds what the last of them left in it: the saved prompt, or nothing
\* after a reset, in every interleaving with a pending test
C27_SavedPromptSurvivesTest ==
  (~TestPending /\ savedPrompt # NoSave) => customUnifiedPrompt = savedPrompt


\* ------------------------------------------------------------ the 'chat' preference
\* call c sends a request in the step: its first, the next candidate's, or a retry's
SendsRequest(c) == calls'[c].pc = "awaitFetch" /\ calls'[c] # calls[c]

\* the step is a 404 or 405 answer to a responses request for the base
UnsupportedAnswer(base) ==
  \E c \in CallIds :
    /\ FetchStep(c)
    /\ calls[c].path = "openai"
    /\ calls[c].base = base
    /\ Current(calls[c]).type = "responses"
    /\ lastEvent'.status \in UnsupportedStatuses

\* C28 (as claimed): for a base without a dialect suffix the remembered preference
\* becomes 'chat' only in a step in which the responses endpoint of that base answers
\* 404 or 405, and once it is 'chat' no step sets it to anything else and no call sends
\* a request to the responses URL of that base
C28_ChatPreferenceSticky ==
  [][\A base \in {OPENAI_BASE, CustomBase} :
       /\ (Get(openAiEndpointPreference, base) # "chat"
             /\ Get(openAiEndpointPreference', base) = "chat")
          => UnsupportedAnswer(base)
       /\ Get(openAiEndpointPreference, base) = "chat"
          => /\ Get(openAiEndpointPreference', base) = "chat"
             /\ \A c \in CallIds :
                  (SendsRequest(c) /\ calls'[c].path = "openai" /\ calls'[c].base = base)
                  => Current(calls'[c]).type # "responses"]_vars


\* ------------------------------------------------------------ provider, credential, endpoint
\* SpecCredential: the OpenAI path under every stored provider and custom base, the
\* settings changing while a call is in flight
CredentialModels == {"gpt-5-mini"}

CredentialProviders == {Null, "custom", " Custom"}

CredentialBases == {Null, "  ", CustomBase, "http://llm.example.com/v1"}

CredentialKeys == {" sk-custom ", "sk-openai"}

CredentialBodies == { ResponsesResponse("responses text") }

CredentialCallers == {1}

InitCredential ==
  /\ isProcessing = FALSE
  /\ apiKeyCache = EmptyMap
  /\ openAiEndpointPreference = EmptyMap
  /\ lsProvider \in CredentialProviders
  /\ lsBaseUrl \in CredentialBases
  /\ lsCustomKey = Null
  /\ lsEndpointPref = StoredAbsent
  /\ calls = [c \in CallIds |-> IdleCall]
  /\ lastEvent = NoEvent
  /\ fellBack = {}
  /\ BridgeIdle
  /\ StudioIdle

NextCredential ==
  \/ \E c \in CredentialCallers, m \in CredentialModels : StartCall(c, m)
  \/ \E c \in CredentialCallers, k \in CredentialKeys : KeySettles(c, k)
  \/ \E c \in CredentialCallers, b \in CredentialBodies : FetchOk(c, "200", b, TRUE, TRUE)
  \/ \E c \in CredentialCallers, st \in ErrorStatuses : FetchError(c, st, "json", TRUE)
  \/ \E c \in CredentialCallers : FetchNetworkError(c)
  \/ \E c \in CredentialCallers : RetryFires(c)
  \/ \E v \in CredentialProviders : SetProvider(v)
  \/ \E v \in CredentialBases : SetBaseUrl(v)

SpecCredential == InitCredential /\ [][NextCredential]_vars

\* the step in which processText hands call c to a handler
Routes(c) == lastEvent'.op = "start" /\ lastEvent'.call = c /\ lastEvent'.outcome = "pending"

\* the stored provider is the 'custom' alias as processText reads it
IsCustomAlias(stored) == NormalizedOverride(stored) = "custom"

\* C29 (as claimed): a call that processText routes to the OpenAI handler because the
\* stored provider is the 'custom' alias, in any letter case and with any surrounding
\* whitespace, fetches the custom credential, and when such a call resolves its base
\* under a stored provider that is the alias, the base is what getConfiguredOpenAIBase
\* gives for the custom provider
C29_CustomDecidedAlike ==
  [][\A c \in CallIds :
       /\ (Routes(c) /\ IsCustomAlias(lsProvider))
          => /\ calls'[c].path = "openai"
             /\ calls'[c].keyProvider = "custom"
       /\ (FirstRequest(c) /\ calls[c].path = "openai" /\ IsCustomAlias(lsProvider))
          => calls'[c].base = getConfiguredOpenAIBase("custom", lsBaseUrl)]_vars

\* the bearer token of call c is the secret fetched for the provider
TokenOf(call, provider) == call.keyProvider = provider /\ Truthy(call.apiKey)

\* the URL lies under the base
Under(url, base) == StartsWith(url, base)

\* C30 (as claimed): in every request sent on the OpenAI path, the bearer token is the
\* custom-endpoint secret only if the URL is under the validated custom base, and is
\* the OpenAI secret only if the URL is under the default OpenAI base
C30_CredentialMatchesEndpoint ==
  [][\A c \in CallIds :
       (SendsRequest(c) /\ calls'[c].path = "openai")
       => LET call == calls'[c]
              url == Current(call).url
              custom == getConfiguredOpenAIBase("custom", lsBaseUrl')
          IN /\ TokenOf(call, "custom") => custom # OPENAI_BASE /\ Under(url, custom)
             /\ TokenOf(call, "openai") => Under(url, OPENAI_BASE)]_vars

====
